---- MODULE Spec2Model ----
(***************************************************************************)
(* Verification model of the attack-episode pipeline of                    *)
(* SmartContractAnalyser (backend/modules, backend/rlhf_agent,             *)
(* backend/services, backend/test_single_pipeline.py).                     *)
(*                                                                         *)
(* Python strings that the code inspects (lower(), startswith(), "in")     *)
(* are sequences of one-character strings; strings that are only stored    *)
(* or tested for emptiness are TLA+ strings.  Python's None is the         *)
(* string None.                                                            *)
(***************************************************************************)
EXTENDS Integers, Sequences, FiniteSets, TLC

None == "<None>"

(***************************************************************************)
(* Bounds of the model.                                                    *)
(***************************************************************************)
MaxGroup == 3

(***************************************************************************)
(* Python string primitives.                                               *)
(***************************************************************************)
UpperChars == <<"A","B","C","D","E","F","G","H","I","J","K","L","M",
                "N","O","P","Q","R","S","T","U","V","W","X","Y","Z">>
LowerChars == <<"a","b","c","d","e","f","g","h","i","j","k","l","m",
                "n","o","p","q","r","s","t","u","v","w","x","y","z">>

LowerChar(c) ==
    IF \E k \in 1..Len(UpperChars) : UpperChars[k] = c
    THEN LowerChars[CHOOSE k \in 1..Len(UpperChars) : UpperChars[k] = c]
    ELSE c

\* str.lower()
Lower(s) == [k \in 1..Len(s) |-> LowerChar(s[k])]

\* str.startswith(p)
StartsWith(s, p) == Len(s) >= Len(p) /\ SubSeq(s, 1, Len(p)) = p

\* p in s
Contains(s, p) == \E k \in 0..(Len(s) - Len(p)) : SubSeq(s, k + 1, k + Len(p)) = p

s_solidity   == <<"s","o","l","i","d","i","t","y">>
s_Solidity   == <<"S","o","l","i","d","i","t","y">>
s_sol        == <<"s","o","l">>
s_python     == <<"p","y","t","h","o","n">>
s_Python     == <<"P","y","t","h","o","n">>
s_js         == <<"j","s">>
s_javascript == <<"j","a","v","a","s","c","r","i","p","t">>
s_vyper      == <<"v","y","p","e","r">>
s_attack     == <<"a","t","t","a","c","k">>
s_exploit    == <<"e","x","p","l","o","i","t">>
s_run        == <<"r","u","n">>

\* the code_type values a caller can pass: the fence language captured by
\* parse_llm_response, or the constant of parse_attack_code_response
CodeTypes == {s_solidity, s_Solidity, s_sol, s_python, s_Python, s_js,
              s_javascript, s_vyper}

\* the attack source: the empty string or some LLM-written text
Codes == {"", "pragma solidity ^0.4.26; contract Attacker {}"}

(***************************************************************************)
(* Attack Executor: data.                                                  *)
(***************************************************************************)
\* the two implementations of execute_attack_on_contracts
Variants == {"modules", "agent"}

\* the fields of the AttackResult dictionary
AttackResultFields == {"success", "attack_fn", "attack_args", "attacker_balance",
                       "contract_balance", "target_contract", "error"}

\* the k-th deployed target of the group: contract_name and address
TargetName(k) == k
TargetAddr(k) == 100 + k
\* the address of the attacker contract created by the k-th deployment
AttackerAddr(k) == 200 + k

ContractGroup(n) == [k \in 1..n |-> [contract_name |-> TargetName(k),
                                     address |-> TargetAddr(k)]]

\* ABI entries of a compiled attacker contract
AbiIn(name, type) == [name |-> name, type |-> type]
AbiFn(name, inputs, mut) ==
    [type |-> "function", name |-> name, inputs |-> inputs, stateMutability |-> mut]

s_pwn     == <<"p","w","n">>
s_Exploit == <<"E","x","p","l","o","i","t">>
s_drain   == <<"d","r","a","i","n">>
s_uint256 == <<"u","i","n","t","2","5","6">>
s_uint    == <<"u","i","n","t">>
s_address == <<"a","d","d","r","e","s","s">>
s_deposit == <<"d","e","p","o","s","i","t">>
s_withdraw == <<"w","i","t","h","d","r","a","w">>
s_round   == <<"r","o","u","n","d">>
s_max     == <<"m","a","x">>
s_count   == <<"c","o","u","n","t">>
s_n       == <<"n">>
s_to      == <<"t","o">>
s_depositAmount == <<"d","e","p","o","s","i","t","A","m","o","u","n","t">>
s_maxRounds == <<"m","a","x","R","o","u","n","d","s">>

AbiCtor == [type |-> "constructor", name |-> <<>>,
            inputs |-> <<AbiIn(<<"t">>, s_address)>>, stateMutability |-> "nonpayable"]

\* compiled ABIs the LLM-written attacker contract may have
AttackerAbis ==
    { <<AbiCtor>>,
      <<AbiCtor, AbiFn(s_attack, <<>>, "nonpayable")>>,
      <<AbiCtor, AbiFn(s_pwn, <<>>, "nonpayable"),
        AbiFn(s_Exploit, <<AbiIn(s_depositAmount, s_uint256)>>, "payable")>>,
      <<AbiCtor, AbiFn(s_drain, <<AbiIn(s_n, s_uint256)>>, "nonpayable")>>,
      <<AbiCtor, AbiFn(s_run, <<AbiIn(s_to, s_address), AbiIn(s_maxRounds, s_uint256)>>, "payable"),
        AbiFn(s_pwn, <<>>, "payable")>> }

IsAttackName(name) ==
    \E x \in {s_attack, s_exploit, s_run} : Contains(Lower(name), x)

\* find_attack_function_robust: the first function whose name contains
\* attack/exploit/run, else the first function without inputs, else None
find_attack_function_robust(abi) ==
    LET named == {k \in 1..Len(abi) : abi[k].type = "function" /\ IsAttackName(abi[k].name)}
        noarg == {k \in 1..Len(abi) : abi[k].type = "function" /\ Len(abi[k].inputs) = 0}
        Min(S) == CHOOSE k \in S : \A j \in S : k <= j
    IN  IF named # {} THEN [fn_name |-> abi[Min(named)].name, inputs |-> abi[Min(named)].inputs]
        ELSE IF noarg # {} THEN [fn_name |-> abi[Min(noarg)].name, inputs |-> <<>>]
        ELSE [fn_name |-> None, inputs |-> <<>>]

\* w3.to_wei(2, 'ether'), amounts being counted in ether
AttackEth == 2
\* the value sent to a freshly deployed attacker contract (modules variant)
AttackerFundEth == 5
\* the balance a funded target holds when the attack starts
TargetFundEth == 3

\* build_attack_args: one heuristic value per input of the entry point
build_attack_args(inputs) ==
    [k \in 1..Len(inputs) |->
        LET n == Lower(inputs[k].name)
            t == inputs[k].type
        IN  IF Contains(n, s_deposit) THEN AttackEth
            ELSE IF Contains(n, s_withdraw) THEN AttackEth
            ELSE IF Contains(n, s_attack) \/ Contains(n, s_round)
                    \/ Contains(n, s_max) \/ Contains(n, s_count) THEN 3
            ELSE IF StartsWith(t, s_uint) THEN 1
            ELSE 0]

(***************************************************************************)
(* State.                                                                  *)
(***************************************************************************)
VARIABLES
    \* execute_attack_on_contracts: its arguments
    variant, code, code_type, contract_group,
    \* what the compiler and the chain will answer: whether the attack source
    \* compiles, and the ABI it compiles to
    compilesOk, attack_abi,
    \* control position: "entry", "loop", "returned"
    pc,
    \* index in contract_group of the next target of the for loop
    i,
    \* the result dictionary (a function from its keys)
    result,
    \* indices of the targets an attempt was started on, in order
    attempted,
    \* the attacker contracts deployed: target index, constructor argument, address
    deployed,
    \* ether balance of every target and attacker address
    balance,
    \* number of compilations, chain transactions sent, host subprocesses run
    compiles, txs, hostRuns,
    \* the except clause of execute_attack_on_contracts ran
    caught,
    \* the index of the target whose attack transaction succeeded, or 0
    txSucceededOn

execVars == <<variant, code, code_type, contract_group, compilesOk, attack_abi, pc, i,
              result, attempted, deployed, balance, compiles, txs, hostRuns, caught,
              txSucceededOn>>

TargetAddrs == {TargetAddr(k) : k \in 1..(MaxGroup + 1)}
Addrs == TargetAddrs \cup {AttackerAddr(k) : k \in 1..(MaxGroup + 1)}

\* messages of the exceptions the compiler and the chain raise
ErrCompile == "SolcError: compilation failed"
ErrRevert  == "execution reverted"
ErrRead    == "ConnectionError: eth_getBalance"

(***************************************************************************)
(* execute_attack_on_contracts.                                            *)
(***************************************************************************)
InitExec ==
    /\ variant \in Variants
    /\ code \in Codes
    /\ code_type \in CodeTypes
    /\ contract_group \in {ContractGroup(n) : n \in 0..MaxGroup}
    /\ attack_abi \in AttackerAbis
    \* an empty source file yields no contract to deploy
    /\ compilesOk \in (IF code = "" THEN {FALSE} ELSE BOOLEAN)
    /\ pc = "entry"
    /\ i = 1
    /\ result = [success |-> FALSE]
    /\ attempted = <<>>
    /\ deployed = <<>>
    /\ balance = [a \in Addrs |-> IF a \in TargetAddrs THEN TargetFundEth ELSE 0]
    /\ compiles = 0
    /\ txs = 0
    /\ hostRuns = 0
    /\ caught = FALSE
    /\ txSucceededOn = 0

IsSolidity == StartsWith(Lower(code_type), s_solidity)

\* modules: if not code: return {"success": False, "error": "No code provided"}
ReturnNoCode ==
    /\ pc = "entry"
    /\ variant = "modules"
    /\ code = ""
    /\ result' = [success |-> FALSE, error |-> "No code provided"]
    /\ pc' = "returned"
    /\ UNCHANGED <<variant, code, code_type, contract_group, compilesOk, attack_abi, i,
                   attempted, deployed, balance, compiles, txs, hostRuns, caught,
                   txSucceededOn>>

\* modules: if not code_type.lower().startswith("solidity"): return the error result
ReturnOnlySolidity ==
    /\ pc = "entry"
    /\ variant = "modules"
    /\ code # ""
    /\ ~IsSolidity
    /\ result' = [success |-> FALSE, error |-> "Only Solidity attacks are supported"]
    /\ pc' = "returned"
    /\ UNCHANGED <<variant, code, code_type, contract_group, compilesOk, attack_abi, i,
                   attempted, deployed, balance, compiles, txs, hostRuns, caught,
                   txSucceededOn>>

\* agent: the final else branch
ReturnUnsupportedType ==
    /\ pc = "entry"
    /\ variant = "agent"
    /\ ~IsSolidity
    /\ Lower(code_type) # s_python
    /\ Lower(code_type) \notin {s_js, s_javascript}
    /\ result' = [success |-> FALSE, error |-> "Unsupported code type"]
    /\ pc' = "returned"
    /\ UNCHANGED <<variant, code, code_type, contract_group, compilesOk, attack_abi, i,
                   attempted, deployed, balance, compiles, txs, hostRuns, caught,
                   txSucceededOn>>

\* agent: code_type.lower() == "python": the code is written to a temporary
\* file and run by python3 on the host
RunPython ==
    /\ pc = "entry"
    /\ variant = "agent"
    /\ ~IsSolidity
    /\ Lower(code_type) = s_python
    /\ hostRuns' = hostRuns + 1
    /\ \E out \in {"exit0", "exit1", "raise"} :
          result' = IF out = "raise"
                    THEN [success |-> FALSE, error |-> "TimeoutExpired"]
                    ELSE [success |-> (out = "exit0"), stdout |-> "", stderr |-> "",
                          attacker_balance |-> 0]
    /\ pc' = "returned"
    /\ UNCHANGED <<variant, code, code_type, contract_group, compilesOk, attack_abi, i,
                   attempted, deployed, balance, compiles, txs, caught, txSucceededOn>>

\* agent: code_type.lower() in ["js", "javascript"]: the code is run by node
RunJs ==
    /\ pc = "entry"
    /\ variant = "agent"
    /\ ~IsSolidity
    /\ Lower(code_type) # s_python
    /\ Lower(code_type) \in {s_js, s_javascript}
    /\ hostRuns' = hostRuns + 1
    /\ \E out \in {"exit0", "exit1", "raise"} :
          result' = IF out = "raise"
                    THEN [success |-> FALSE, error |-> "TimeoutExpired"]
                    ELSE [success |-> (out = "exit0"), stdout |-> "", stderr |-> ""]
    /\ pc' = "returned"
    /\ UNCHANGED <<variant, code, code_type, contract_group, compilesOk, attack_abi, i,
                   attempted, deployed, balance, compiles, txs, caught, txSucceededOn>>

\* the Solidity branch: the result is initialised and the for loop entered
BeginLoop ==
    /\ pc = "entry"
    /\ IsSolidity
    /\ variant = "modules" => code # ""
    /\ result' = [success |-> FALSE, error |-> None, attack_fn |-> None,
                  attack_args |-> None, attacker_balance |-> None,
                  contract_balance |-> None]
    /\ pc' = "loop"
    /\ UNCHANGED <<variant, code, code_type, contract_group, compilesOk, attack_abi, i,
                   attempted, deployed, balance, compiles, txs, hostRuns, caught,
                   txSucceededOn>>

\* result["error"] = str(e)
WithError(r, msg) == [k \in DOMAIN r \cup {"error"} |-> IF k = "error" THEN msg ELSE r[k]]

\* the address given to the attacker's constructor for the target at index k:
\* modules passes target_address, agent's nested helper reads contract_group[0]
CtorArg(k) ==
    IF variant = "modules" THEN contract_group[k].address ELSE contract_group[1].address

\* one iteration of "for ci in contract_group", inside the try block:
\* compile_and_deploy_attack_contract, try_attack_super_generic,
\* measure_exploit_success, the result assignment and the break; an exception
\* of any of them leaves the loop through the except clause
AttemptTarget ==
    /\ pc = "loop"
    /\ i <= Len(contract_group)
    /\ attempted' = Append(attempted, i)
    /\ compiles' = compiles + 1
    /\ UNCHANGED <<variant, code, code_type, contract_group, compilesOk, attack_abi, hostRuns>>
    /\ \E deployOk \in BOOLEAN, fundOk \in BOOLEAN, txOk \in BOOLEAN,
          drain \in BOOLEAN, readOk \in BOOLEAN :
       LET ci      == contract_group[i]
           addr    == AttackerAddr(Len(deployed) + 1)
           victim  == CtorArg(i)
           found   == find_attack_function_robust(attack_abi)
           args    == build_attack_args(found.inputs)
           called  == found.fn_name # None
           success == called /\ txOk
           funded  == variant = "modules" /\ fundOk
           b1      == [balance EXCEPT ![addr] = IF funded THEN AttackerFundEth ELSE 0]
           b2      == IF success /\ drain
                      THEN [b1 EXCEPT ![addr] = b1[addr] + b1[victim], ![victim] = 0]
                      ELSE b1
       IN  IF ~compilesOk
           THEN /\ result' = WithError(result, ErrCompile)
                /\ caught' = TRUE
                /\ pc' = "returned"
                /\ UNCHANGED <<i, txSucceededOn, deployed, balance, txs>>
           ELSE IF ~deployOk
           THEN /\ result' = WithError(result, ErrRevert)
                /\ caught' = TRUE
                /\ pc' = "returned"
                /\ txs' = txs + 1
                /\ UNCHANGED <<i, txSucceededOn, deployed, balance>>
           ELSE /\ deployed' = Append(deployed, [target |-> i, ctor_arg |-> victim,
                                                 address |-> addr])
                /\ balance' = b2
                /\ txs' = txs + 1 + (IF variant = "modules" THEN 1 ELSE 0)
                                  + (IF called THEN 1 ELSE 0)
                /\ txSucceededOn' = IF success THEN i ELSE 0
                /\ IF ~readOk
                   THEN /\ result' = WithError(result, ErrRead)
                        /\ caught' = TRUE
                        /\ pc' = "returned"
                        /\ i' = i
                   ELSE /\ result' = [success |-> success,
                                      attack_fn |-> found.fn_name,
                                      attack_args |-> args,
                                      attacker_balance |-> b2[addr],
                                      contract_balance |-> b2[ci.address],
                                      target_contract |-> ci.contract_name]
                        /\ caught' = FALSE
                        /\ IF success
                           THEN pc' = "returned" /\ i' = i
                           ELSE pc' = "loop" /\ i' = i + 1

\* the for loop is exhausted: return result
LoopExhausted ==
    /\ pc = "loop"
    /\ i > Len(contract_group)
    /\ pc' = "returned"
    /\ UNCHANGED <<variant, code, code_type, contract_group, compilesOk, attack_abi, i,
                   result, attempted, deployed, balance, compiles, txs, hostRuns, caught,
                   txSucceededOn>>

(***************************************************************************)
(* Contract Deployer: prompt_llm_for_args.                                 *)
(***************************************************************************)
MaxInputs == 2
MaxReplyArgs == 2

s_int_t     == <<"i","n","t">>
s_int256    == <<"i","n","t","2","5","6">>
s_bool      == <<"b","o","o","l">>
s_address_arr == <<"a","d","d","r","e","s","s","[","]">>
s_bytes32   == <<"b","y","t","e","s","3","2">>
s_bytes     == <<"b","y","t","e","s">>
s_string    == <<"s","t","r","i","n","g">>

\* the Solidity types of the inputs of a constructor or setup function
AbiTypes == {s_uint256, s_int256, s_bool, s_address, s_address_arr, s_bytes32, s_string}

\* Python values: kind is the Python type; n the number of an int (the length
\* of a bytes value); text the characters of a str or bytes; items the
\* elements of a list of str
PyInt(n)      == [kind |-> "int",   n |-> n, text |-> "", items |-> <<>>]
PyBool(b)     == [kind |-> "bool",  n |-> IF b THEN 1 ELSE 0, text |-> "", items |-> <<>>]
PyStr(t)      == [kind |-> "str",   n |-> 0, text |-> t,  items |-> <<>>]
PyBytes(t, l) == [kind |-> "bytes", n |-> l, text |-> t,  items |-> <<>>]
PyList(xs)    == [kind |-> "list",  n |-> 0, text |-> "", items |-> xs]
\* an exception raised while a value is computed
Raised        == [kind |-> "raise", n |-> 0, text |-> "", items |-> <<>>]

\* the placeholder address of prompt_llm_for_args, and texts an LLM answers
AddrPlaceholder == "0x7E5F4552091A69125d5DfCb7b8C2659029395Bdf"
AddrCk2    == "0x2B5AD5c4795c026514f8317c7a215E218DcCD6cF"
AddrLo2    == "0x2b5ad5c4795c026514f8317c7a215e218dccd6cf"
AddrNonHex == "0xZZZZZZZZZZZZZZZZZZZZZZZZZZZZZZZZZZZZZZZZ"

\* Web3.is_checksum_address
is_checksum_address(t) == t \in {AddrPlaceholder, AddrCk2}
\* val.startswith("0x") and len(val) == 42
Is0x42(t) == t \in {AddrPlaceholder, AddrCk2, AddrLo2, AddrNonHex}
\* val.startswith("0x") and len(val) == 66: none of the texts above
Is0x66(t) == FALSE
\* a 0x-prefixed hexadecimal text
IsHexText(t) == t \in {AddrPlaceholder, AddrCk2, AddrLo2}
\* val.lower() in ["true", "1"]
LowerIsTrue(t) == t \in {"true", "True", "1"}

\* Web3.to_checksum_address: the EIP-55 form of a hexadecimal address, a
\* ValueError for any other text
to_checksum_address(t) ==
    IF t \in {AddrCk2, AddrLo2} THEN PyStr(AddrCk2)
    ELSE IF t = AddrPlaceholder THEN PyStr(AddrPlaceholder)
    ELSE Raised

\* int(val)
PyIntOf(v) ==
    IF v.kind \in {"int", "bool"} THEN PyInt(v.n)
    ELSE IF v.kind = "str" /\ v.text = "1" THEN PyInt(1)
    ELSE Raised

\* the values eval() of an LLM reply yields as elements of the array
ReplyValues == {PyInt(7), PyInt(0 - 5), PyBool(TRUE), PyStr(AddrLo2), PyStr(AddrCk2),
                PyStr(AddrNonHex), PyStr("true"), PyList(<<AddrLo2>>), PyList(<<AddrNonHex>>)}

SeqsUpTo(S, n) == UNION {[1..m -> S] : m \in 0..n}

\* what the chat completion does: the call raises; the reply has no "[";
\* the reply has a "[" and eval() raises; eval() yields a list
LlmOutcomes ==
    {[kind |-> k, args |-> <<>>] : k \in {"call_raises", "no_bracket", "eval_raises"}}
    \cup {[kind |-> "array", args |-> a] : a \in SeqsUpTo(ReplyValues, MaxReplyArgs)}

\* a cast that puts the placeholder for every address
CastArg_AddressReplaced(typ, val) ==
    IF typ = s_address THEN PyStr(AddrPlaceholder) ELSE val

\* the body of the for loop of prompt_llm_for_args: the cast of one value
CastArg(typ, val) ==
    IF StartsWith(typ, s_uint) \/ StartsWith(typ, s_int_t)
    THEN (IF PyIntOf(val) = Raised THEN PyInt(1) ELSE PyIntOf(val))
    ELSE IF typ = s_bool
    THEN (IF val.kind = "bool" THEN val
          ELSE IF val.kind = "str" /\ LowerIsTrue(val.text) THEN PyBool(TRUE)
          ELSE PyBool(FALSE))
    ELSE IF typ = s_address
    THEN (IF val.kind = "str" /\ is_checksum_address(val.text) THEN val
          ELSE IF val.kind = "str" /\ Is0x42(val.text)
          THEN (IF to_checksum_address(val.text) = Raised
                THEN to_checksum_address(AddrPlaceholder)
                ELSE to_checksum_address(val.text))
          ELSE to_checksum_address(AddrPlaceholder))
    ELSE IF typ = s_address_arr
    THEN (IF val.kind = "list"
          THEN (IF \E k \in 1..Len(val.items) :
                      Is0x42(val.items[k]) /\ to_checksum_address(val.items[k]) = Raised
                THEN Raised
                ELSE PyList([k \in 1..Len(val.items) |->
                               IF Is0x42(val.items[k])
                               THEN to_checksum_address(val.items[k]).text
                               ELSE AddrPlaceholder]))
          ELSE PyList(<<AddrPlaceholder>>))
    ELSE IF typ = s_bytes32
    THEN (IF val.kind = "str" /\ Is0x66(val.text) THEN val
          ELSE IF val.kind = "str" THEN PyBytes(val.text, 32)
          ELSE PyBytes("KEY", 32))
    ELSE IF typ = s_string \/ StartsWith(typ, s_bytes)
    THEN (IF val.kind = "str" THEN val ELSE PyStr("str(val)"))
    ELSE val

\* the list of the except clause: one default per input
FallbackArgs(inputs) ==
    [k \in 1..Len(inputs) |->
        IF inputs[k] = s_address THEN PyStr(AddrPlaceholder)
        ELSE IF inputs[k] = s_address_arr THEN PyList(<<AddrPlaceholder>>)
        ELSE IF inputs[k] = s_bytes32 THEN PyStr("KEY")
        ELSE IF Contains(inputs[k], s_uint) THEN PyInt(1)
        ELSE IF inputs[k] = s_string THEN PyStr("test")
        ELSE IF inputs[k] = s_bool THEN PyBool(FALSE)
        ELSE PyInt(0)]

Min2(a, b) == IF a <= b THEN a ELSE b

\* for val, inp in zip(args, abi_inputs): zip stops at the shorter of the two
CastAll(args, inputs) ==
    [k \in 1..Min2(Len(args), Len(inputs)) |-> CastArg(inputs[k], args[k])]

\* whether web3 encodes value v as an argument of Solidity type typ
Coercible(typ, v) ==
    IF StartsWith(typ, s_uint) THEN v.kind = "int" /\ v.n >= 0
    ELSE IF StartsWith(typ, s_int_t) THEN v.kind = "int"
    ELSE IF typ = s_bool THEN v.kind = "bool"
    ELSE IF typ = s_address THEN v.kind = "str" /\ is_checksum_address(v.text)
    ELSE IF typ = s_address_arr
    THEN v.kind = "list" /\ \A k \in 1..Len(v.items) : is_checksum_address(v.items[k])
    ELSE IF typ = s_bytes32
    THEN (v.kind = "bytes" /\ v.n <= 32) \/ (v.kind = "str" /\ IsHexText(v.text))
    ELSE IF typ = s_string THEN v.kind = "str"
    ELSE FALSE

VARIABLES
    \* prompt_llm_for_args: the types of fn_abi["inputs"], in order
    abi_inputs,
    \* what the chat completion will do
    llm,
    \* control position: "call", "returned", "raised"
    args_pc,
    \* the list returned
    args_out

argsVars == <<abi_inputs, llm, args_pc, args_out>>

InitArgs ==
    /\ abi_inputs \in SeqsUpTo(AbiTypes, MaxInputs)
    /\ llm \in LlmOutcomes
    /\ args_pc = "call"
    /\ args_out = <<>>

\* openai.chat.completions.create raises: the except clause returns the defaults
LlmCallRaises ==
    /\ args_pc = "call"
    /\ llm.kind = "call_raises"
    /\ args_out' = FallbackArgs(abi_inputs)
    /\ args_pc' = "returned"
    /\ UNCHANGED <<abi_inputs, llm>>

\* args = eval(txt) if "[" in txt else []: without a "[" the loop runs over an
\* empty list and casted is returned as it is
ReplyWithoutBracket ==
    /\ args_pc = "call"
    /\ llm.kind = "no_bracket"
    /\ args_out' = CastAll(<<>>, abi_inputs)
    /\ args_pc' = "returned"
    /\ UNCHANGED <<abi_inputs, llm>>

\* eval(txt) raises: the except clause returns the defaults
ReplyEvalRaises ==
    /\ args_pc = "call"
    /\ llm.kind = "eval_raises"
    /\ args_out' = FallbackArgs(abi_inputs)
    /\ args_pc' = "returned"
    /\ UNCHANGED <<abi_inputs, llm>>

\* eval(txt) yields a list: the values are cast pairwise; an exception of a
\* cast that no inner try catches ends in the except clause
ReplyArray ==
    /\ args_pc = "call"
    /\ llm.kind = "array"
    /\ LET casted == CastAll(llm.args, abi_inputs)
       IN  args_out' = IF \E k \in 1..Len(casted) : casted[k] = Raised
                       THEN FallbackArgs(abi_inputs)
                       ELSE casted
    /\ args_pc' = "returned"
    /\ UNCHANGED <<abi_inputs, llm>>

(***************************************************************************)
(* Contract Observer output and JSON serialisation.                        *)
(***************************************************************************)
MaxContracts == 2

\* decimal.Decimal
PyDecimal(n) == [kind |-> "decimal", n |-> n, text |-> "", items |-> <<>>]

\* w3.from_wei(number, 'ether'): the int 0 for 0, a Decimal otherwise
\* (amounts are counted in ether)
from_wei(number) == IF number = 0 THEN PyInt(0) ELSE PyDecimal(number)

\* state[key] = value on a dict
DictSet(d, key, value) == [x \in DOMAIN d \cup {key} |-> IF x = key THEN value ELSE d[x]]

\* f"ERROR: {e}" and the marker of a parameter type that is not probed
ErrorMarker       == PyStr("ERROR: execution reverted")
UnsupportedMarker == PyStr("Type non pris en charge")

\* what a getter returns
GetterValue == PyInt(7)

\* the results list of a probed getter: one entry per probe value
ProbeResults == PyList([k \in 1..3 |-> [probe |-> k, value |-> GetterValue]])

\* the body of the try block for the ABI entry f, when call number
\* revert_at of the calls it makes raises (0: none does): the value it
\* assigns to state[f.name], "raise" when an exception reaches the except
\* clause, "none" when no branch is taken.  get_function_by_signature is
\* asked for name(uint256) whatever uint type is declared and raises when
\* the contract has no such function.
try_getter(f, revert_at) ==
    IF Len(f.inputs) = 0
    THEN (IF revert_at = 1 THEN [kind |-> "raise", value |-> None]
          ELSE [kind |-> "set", value |-> GetterValue])
    ELSE IF Len(f.inputs) = 1
    THEN LET arg_type == f.inputs[1].type
         IN  IF arg_type = s_address
             THEN (IF revert_at \in 1..3 THEN [kind |-> "raise", value |-> None]
                   ELSE [kind |-> "set", value |-> ProbeResults])
             ELSE IF StartsWith(arg_type, s_uint)
             THEN (IF arg_type # s_uint256 \/ revert_at \in 1..3
                   THEN [kind |-> "raise", value |-> None]
                   ELSE [kind |-> "set", value |-> ProbeResults])
             ELSE [kind |-> "set", value |-> UnsupportedMarker]
    ELSE [kind |-> "none", value |-> None]

\* an except clause that only logs
getter_entry_SwallowsError(state, f, revert_at) ==
    IF f.type = "function" /\ f.stateMutability \in {"view", "pure"}
    THEN LET r == try_getter(f, revert_at)
         IN  IF r.kind = "set" THEN DictSet(state, f.name, r.value) ELSE state
    ELSE state

\* one iteration of the loop over contract_info["abi"]
getter_entry(state, f, revert_at) ==
    IF f.type = "function" /\ f.stateMutability \in {"view", "pure"}
    THEN LET r == try_getter(f, revert_at)
         IN  IF r.kind = "set" THEN DictSet(state, f.name, r.value)
             ELSE IF r.kind = "raise" THEN DictSet(state, f.name, ErrorMarker)
             ELSE state
    ELSE state

RECURSIVE getter_entries(_, _, _, _)
getter_entries(state, abi, calls, k) ==
    IF k > Len(abi) THEN state
    ELSE getter_entries(getter_entry(state, abi[k], calls[k]), abi, calls, k + 1)

\* get_public_getters_and_vars_state of a contract that holds bal, whose ABI
\* is abi and where calls[k] tells which call of the k-th entry raises: the
\* two balance entries, then the loop over the ABI
get_public_getters_and_vars_state(bal, abi, calls) ==
    getter_entries([_contract_eth_balance_wei |-> PyInt(bal),
                    _contract_eth_balance_eth |-> from_wei(bal)], abi, calls, 1)

\* build_multi_contract_observation of a group whose k-th contract holds
\* bals[k] (contracts without getters)
build_multi_contract_observation(bals) ==
    [k \in 1..Len(bals) |->
        [contract_name |-> TargetName(k),
         public_state |-> get_public_getters_and_vars_state(bals[k], <<>>, <<>>)]]

\* the balances a deployed target can hold when it is observed: nothing, or
\* what auto_fund_contract_for_attack sent
ObservedBalances == {0, TargetFundEth}

Observations ==
    {build_multi_contract_observation(b) :
        b \in UNION {[1..m -> ObservedBalances] : m \in 1..MaxContracts}}

\* DecimalEncoder.default: a Decimal is written as a float
DecimalEncoder == "DecimalEncoder"
\* json.JSONEncoder, the default of json.dumps
JSONEncoder == "JSONEncoder"

\* whether json.dumps(v, cls=cls) returns; it raises TypeError otherwise
JsonSerializable(v, cls) ==
    IF v.kind = "decimal" THEN cls = DecimalEncoder
    ELSE v.kind \in {"int", "bool", "str", "list"}

JsonDumpsOk(obs, cls) ==
    \A k \in 1..Len(obs) :
        \A key \in DOMAIN obs[k].public_state :
            JsonSerializable(obs[k].public_state[key], cls)

(***************************************************************************)
(* Reward Evaluator: parse_reward_output.  A reply is a sequence of        *)
(* tokens: words, digits and punctuation.                                  *)
(***************************************************************************)
MaxSegments == 3

\* re.IGNORECASE matches of the two markers
ScoreWords   == {"SCORE", "score", "Score"}
CommentWords == {"COMMENT", "comment", "Comment"}
Digits       == <<"0","1","2","3","4","5","6","7","8","9">>
IsDigit(t)   == \E d \in 1..10 : Digits[d] = t
DigitVal(t)  == (CHOOSE d \in 1..10 : Digits[d] = t) - 1
\* the class [\d.]
IsNumTok(t)  == IsDigit(t) \/ t = "."
\* the class \s
IsSpace(t)   == t = " " \/ t = "\n"

\* pieces a reward-model reply is made of
ReplySegments ==
    { <<"SCORE", ":", " ", "8">>,
      <<"score", " ", ":", "7", ".", "9">>,
      <<"Score", ":", "1", "0">>,
      <<"SCORE", ":", " ", ".">>,
      <<"SCORE", " ", "8">>,
      <<"SCORE", ":", " ", "4", "2">>,
      <<"COMMENT", ":", " ", "good", " ">>,
      <<"comment", ":">>,
      <<" ", "|", " ">>,
      <<"good">> }

RECURSIVE Flatten(_)
Flatten(ss) == IF ss = <<>> THEN <<>> ELSE Head(ss) \o Flatten(Tail(ss))

\* the texts the reward model answers
Replies == {Flatten(ss) : ss \in UNION {[1..m -> ReplySegments] : m \in 0..MaxSegments}}

\* the first position at or after p that holds no whitespace (Len(r) + 1 if none)
RECURSIVE SkipSpaces(_, _)
SkipSpaces(r, p) == IF p <= Len(r) /\ IsSpace(r[p]) THEN SkipSpaces(r, p + 1) ELSE p

\* the last position of the run of [\d.] tokens that starts at p
RECURSIVE NumRunEnd(_, _)
NumRunEnd(r, p) ==
    IF p + 1 <= Len(r) /\ IsNumTok(r[p + 1]) THEN NumRunEnd(r, p + 1) ELSE p

\* SCORE\s*:\s*([\d.]+) matches at position p
ScoreMatchAt(r, p) ==
    /\ r[p] \in ScoreWords
    /\ LET a == SkipSpaces(r, p + 1)
       IN  /\ a <= Len(r)
           /\ r[a] = ":"
           /\ LET b == SkipSpaces(r, a + 1)
              IN  b <= Len(r) /\ IsNumTok(r[b])

\* COMMENT\s*:\s*(.*) matches at position p
CommentMatchAt(r, p) ==
    /\ r[p] \in CommentWords
    /\ LET a == SkipSpaces(r, p + 1)
       IN  a <= Len(r) /\ r[a] = ":"

HasScoreMarker(r)   == \E p \in 1..Len(r) : ScoreMatchAt(r, p)
HasCommentMarker(r) == \E p \in 1..Len(r) : CommentMatchAt(r, p)

\* re.search: the leftmost match; group(1) of the score pattern
ScoreGroup(r) ==
    LET p == CHOOSE q \in 1..Len(r) : ScoreMatchAt(r, q) /\ \A j \in 1..(q - 1) : ~ScoreMatchAt(r, j)
        b == SkipSpaces(r, SkipSpaces(r, p + 1) + 1)
    IN  SubSeq(r, b, NumRunEnd(r, b))

\* str.strip()
RECURSIVE Strip(_)
Strip(s) ==
    IF s = <<>> THEN s
    ELSE IF IsSpace(Head(s)) THEN Strip(Tail(s))
    ELSE IF IsSpace(s[Len(s)]) THEN Strip(SubSeq(s, 1, Len(s) - 1))
    ELSE s

\* group(1) of the comment pattern, stripped
CommentGroup(r) ==
    LET p == CHOOSE q \in 1..Len(r) : CommentMatchAt(r, q) /\ \A j \in 1..(q - 1) : ~CommentMatchAt(r, j)
        a == SkipSpaces(r, p + 1)
    IN  Strip(SubSeq(r, SkipSpaces(r, a + 1), Len(r)))

\* float(text) accepts digits with at most one point and at least one digit
FloatOk(g) ==
    /\ Cardinality({k \in 1..Len(g) : g[k] = "."}) <= 1
    /\ \E k \in 1..Len(g) : IsDigit(g[k])

\* the value of a run of digits
RECURSIVE DigitsVal(_)
DigitsVal(g) == IF g = <<>> THEN 0 ELSE 10 * DigitsVal(SubSeq(g, 1, Len(g) - 1)) + DigitVal(g[Len(g)])

\* float(text), in thousandths
FloatMilli(g) ==
    LET dots == {k \in 1..Len(g) : g[k] = "."}
        dot  == IF dots = {} THEN Len(g) + 1 ELSE CHOOSE k \in dots : TRUE
        frac == SubSeq(g, dot + 1, Len(g))
        f3   == SubSeq(frac \o <<"0", "0", "0">>, 1, 3)
    IN  1000 * DigitsVal(SubSeq(g, 1, dot - 1)) + DigitsVal(f3)

\* a parser whose comment falls back on the whole reply
parse_reward_output_RawComment(r) ==
    [score   |-> IF HasScoreMarker(r) /\ FloatOk(ScoreGroup(r)) THEN FloatMilli(ScoreGroup(r)) ELSE 0,
     comment |-> IF HasCommentMarker(r) THEN CommentGroup(r) ELSE r]

\* parse_reward_output: score and comment start at 0.0 and ""; a float() that
\* raises is caught after the score and before the comment is assigned
parse_reward_output(r) ==
    IF HasScoreMarker(r) /\ ~FloatOk(ScoreGroup(r))
    THEN [score |-> 0, comment |-> <<>>]
    ELSE [score   |-> IF HasScoreMarker(r) THEN FloatMilli(ScoreGroup(r)) ELSE 0,
          comment |-> IF HasCommentMarker(r) THEN CommentGroup(r) ELSE <<>>]

(***************************************************************************)
(* Reward Evaluator and Results Manager: evaluate_attack and               *)
(* save_episode_results, as an episode of a pipeline driver runs them.     *)
(***************************************************************************)
MaxBatch == 3
MaxEpisodes == 4

\* the reply query_gpt4_reward returns when the chat completion raises
ErrorReply == <<"ERROR", ":", " ", "timeout">>

\* reward scores, in thousandths, an evaluation can carry
SampleScores == {0, 7900, 8000}

\* the promotion threshold of save_episode_results, in thousandths
GoodScoreMilli == 8000

VARIABLES
    \* the observation and the success field of the attack result of the episode
    observation, atk_success,
    \* position of the episode: "observed", "evaluated", "saved", "raised", "done"
    eval_pc,
    \* the Evaluation: reward_raw_output, reward_score (thousandths), reward_comment
    reward_raw, reward_score, reward_comment,
    \* the records of the buffer file, the line count of finetune_dataset.jsonl
    \* now and when the run started, the retraining jobs launched
    buffer, dataset_lines, dataset0, launches,
    \* the sft_trigger_batch argument
    sft_trigger_batch,
    \* episodes run so far; whether the current episode appended a sample, and
    \* the retraining jobs it launched
    episode, epPromoted, epLaunches,
    \* the f.write calls made so far, in order: the file and the episode
    file_writes

evalVars == <<observation, atk_success, eval_pc, reward_raw, reward_score, reward_comment,
              buffer, dataset_lines, dataset0, launches, sft_trigger_batch, episode,
              epPromoted, epLaunches, file_writes>>

\* evaluate_attack: reward_prompt serialises the observation with plain
\* json.dumps and raises TypeError when that fails; the exception leaves
\* evaluate_attack and is caught by the driver's except clause, which ends
\* the episode
EvaluateAttackRaises ==
    /\ eval_pc = "observed"
    /\ ~JsonDumpsOk(observation, JSONEncoder)
    /\ eval_pc' = "raised"
    /\ UNCHANGED <<observation, atk_success, reward_raw, reward_score, reward_comment,
                   buffer, dataset_lines, dataset0, launches, sft_trigger_batch, episode,
                   epPromoted, epLaunches, file_writes>>

\* evaluate_attack: reward_prompt, query_gpt4_reward (the reply, or the
\* "ERROR: ..." text when the call raises) and parse_reward_output
EvaluateAttack ==
    /\ eval_pc = "observed"
    /\ JsonDumpsOk(observation, JSONEncoder)
    /\ \E reply \in Replies \cup {ErrorReply} :
          /\ reward_raw' = reply
          /\ reward_score' = parse_reward_output(reply).score
          /\ reward_comment' = parse_reward_output(reply).comment
    /\ eval_pc' = "evaluated"
    /\ UNCHANGED <<observation, atk_success, buffer, dataset_lines, dataset0, launches,
                   sft_trigger_batch, episode, epPromoted, epLaunches, file_writes>>

\* create_episode_record: the fields of the record the model keeps
create_episode_record(obs, success, raw, score, comment) ==
    [observation |-> obs, attack_result |-> [success |-> success],
     reward_model_output |-> raw, reward_score |-> score, reward_comment |-> comment]

\* a buffer file opened with mode "w": the record replaces the file
save_record_to_buffer_Truncating(lines, record) == <<record>>

\* save_record_to_buffer: open(buffer_file, "a") and one write of one line
save_record_to_buffer(lines, record) == Append(lines, record)

\* one f.write call: the file written and the episode that wrote
FileWrite(file, ep) == [file |-> file, episode |-> ep]

\* a promotion test that forgets the success of the attack
IsGoodSample_ScoreOnly(score, success) == score >= GoodScoreMilli

\* the condition of save_episode_results: reward_score >= 8 and success
IsGoodSample(score, success) == score >= GoodScoreMilli /\ success

\* a trigger that fires from the batch size on instead of on its multiples
ShouldLaunch_FromBatchOn(num_samples, batch) == num_samples >= batch

\* the condition of process_good_sample on the line count after the append
ShouldLaunch(num_samples, batch) == num_samples > 0 /\ num_samples % batch = 0

\* save_episode_results: the record is appended to the buffer file (with
\* DecimalEncoder); a good sample is appended to the dataset file, its lines
\* are counted and the retraining job launched on a multiple of the batch
SaveEpisodeResults ==
    /\ eval_pc = "evaluated"
    /\ JsonDumpsOk(observation, DecimalEncoder)
    /\ buffer' = save_record_to_buffer(buffer,
                      create_episode_record(observation, atk_success, reward_raw,
                                            reward_score, reward_comment))
    /\ IF IsGoodSample(reward_score, atk_success)
       THEN /\ dataset_lines' = dataset_lines + 1
            /\ file_writes' = file_writes \o <<FileWrite("rlaif_buffer.jsonl", episode),
                                                FileWrite("finetune_dataset.jsonl", episode)>>
            /\ epPromoted' = TRUE
            /\ IF ShouldLaunch(dataset_lines + 1, sft_trigger_batch)
               THEN launches' = launches + 1 /\ epLaunches' = epLaunches + 1
               ELSE UNCHANGED <<launches, epLaunches>>
       ELSE /\ file_writes' = Append(file_writes, FileWrite("rlaif_buffer.jsonl", episode))
            /\ UNCHANGED <<dataset_lines, epPromoted, launches, epLaunches>>
    /\ eval_pc' = "saved"
    /\ UNCHANGED <<observation, atk_success, reward_raw, reward_score, reward_comment,
                   dataset0, sft_trigger_batch, episode>>

\* the stages of an episode up to the evaluation, for a run of several
\* episodes: they hand save_episode_results an observation the evaluator
\* could serialise, an attack result and an Evaluation
RunEpisodeToEvaluation ==
    /\ eval_pc \in {"start", "saved"}
    /\ episode < MaxEpisodes
    /\ episode' = episode + 1
    /\ observation' = build_multi_contract_observation(<<0>>)
    /\ atk_success' \in BOOLEAN
    /\ reward_score' \in SampleScores
    /\ reward_raw' = <<>>
    /\ reward_comment' = <<>>
    /\ epPromoted' = FALSE
    /\ epLaunches' = 0
    /\ eval_pc' = "evaluated"
    /\ UNCHANGED <<buffer, dataset_lines, dataset0, launches, sft_trigger_batch,
                   file_writes>>

\* one episode of test_single_pipeline, from the observation on
InitEval ==
    /\ observation \in Observations
    /\ atk_success \in BOOLEAN
    /\ eval_pc = "observed"
    /\ reward_raw = <<>>
    /\ reward_score = 0
    /\ reward_comment = <<>>
    /\ buffer = <<>>
    /\ dataset_lines = 0
    /\ dataset0 = 0
    /\ launches = 0
    /\ sft_trigger_batch \in {1, MaxBatch}
    /\ episode = 1
    /\ epPromoted = FALSE
    /\ epLaunches = 0
    /\ file_writes = <<>>

\* a run of episodes over a dataset file that may already hold lines
InitSave ==
    /\ observation = <<>>
    /\ atk_success = FALSE
    /\ eval_pc = "start"
    /\ reward_raw = <<>>
    /\ reward_score = 0
    /\ reward_comment = <<>>
    /\ buffer = <<>>
    /\ dataset_lines \in 0..MaxBatch
    /\ dataset0 = dataset_lines
    /\ launches = 0
    /\ sft_trigger_batch \in 1..MaxBatch
    /\ episode = 0
    /\ epPromoted = FALSE
    /\ epLaunches = 0
    /\ file_writes = <<>>

EvalIdle ==
    /\ observation = <<>>
    /\ atk_success = FALSE
    /\ eval_pc = "idle"
    /\ reward_raw = <<>>
    /\ reward_score = 0
    /\ reward_comment = <<>>
    /\ buffer = <<>>
    /\ dataset_lines = 0
    /\ dataset0 = 0
    /\ launches = 0
    /\ sft_trigger_batch = 1
    /\ episode = 0
    /\ epPromoted = FALSE
    /\ epLaunches = 0
    /\ file_writes = <<>>

(***************************************************************************)
(* Target Filter and the pipeline drivers: main_multi_episode,             *)
(* test_single_pipeline and the service's analyze_contract_from_code.      *)
(***************************************************************************)
MaxFileContracts == 2

important_names ==
    { <<"w","a","l","l","e","t">>, <<"b","a","n","k">>,
      <<"d","a","o">>, <<"c","r","o","w","d","s","a","l","e">>,
      <<"l","o","t","t","e","r","y">>, <<"f","u","n","d">>,
      <<"p","r","o","x","y">>, <<"c","a","s","i","n","o">>,
      <<"e","x","c","h","a","n","g","e">>, <<"i","c","o">>,
      <<"s","a","l","e">>, <<"p","o","o","l">>,
      <<"s","t","a","k","i","n","g">> }

safe_names ==
    { <<"e","r","c","2","0">>, <<"s","t","a","n","d","a","r","d","t","o","k","e","n">>,
      <<"s","a","f","e","m","a","t","h">>, <<"o","w","n","a","b","l","e">>,
      <<"t","o","k","e","n","b","a","s","i","c">>, <<"e","r","c","2","0","b","a","s","i","c">>,
      <<"m","a","t","h">>, <<"u","t","i","l">>,
      <<"i","n","t","e","r","f","a","c","e">>, <<"l","i","b","r","a","r","y">>,
      <<"r","e","c","i","p","i","e","n","t">> }

money_words == { <<"b","a","l","a","n","c","e">>, <<"f","u","n","d">>, <<"j","a","c","k","p","o","t">> }

\* a filter that forgets the list of business names
is_exploitable_target_NoImportantNames(contract_info) ==
    LET name == Lower(contract_info.contract_name)
        abi  == contract_info.abi
    IN  IF \E n \in safe_names : Contains(name, n) THEN FALSE
        ELSE IF \E k \in 1..Len(abi) :
                    abi[k].type = "function" /\ abi[k].stateMutability = "payable" THEN TRUE
        ELSE \E k \in 1..Len(abi) :
                 /\ abi[k].type = "function"
                 /\ \E w \in money_words : Contains(Lower(abi[k].name), w)

\* a filter that looks at the business names before the utility names
is_exploitable_target_ImportantFirst(contract_info) ==
    LET name == Lower(contract_info.contract_name)
        abi  == contract_info.abi
    IN  IF \E n \in important_names : Contains(name, n) THEN TRUE
        ELSE IF \E n \in safe_names : Contains(name, n) THEN FALSE
        ELSE IF \E k \in 1..Len(abi) :
                    abi[k].type = "function" /\ abi[k].stateMutability = "payable" THEN TRUE
        ELSE \E k \in 1..Len(abi) :
                 /\ abi[k].type = "function"
                 /\ \E w \in money_words : Contains(Lower(abi[k].name), w)

\* is_exploitable_target: utility names are rejected first; then business
\* names, a payable function, or a function about balances, funds or a
\* jackpot accept the contract
is_exploitable_target(contract_info) ==
    LET name == Lower(contract_info.contract_name)
        abi  == contract_info.abi
    IN  IF \E n \in safe_names : Contains(name, n) THEN FALSE
        ELSE IF \E n \in important_names : Contains(name, n) THEN TRUE
        ELSE IF \E k \in 1..Len(abi) :
                    abi[k].type = "function" /\ abi[k].stateMutability = "payable" THEN TRUE
        ELSE \E k \in 1..Len(abi) :
                 /\ abi[k].type = "function"
                 /\ \E w \in money_words : Contains(Lower(abi[k].name), w)

\* contracts a Solidity source file may hold
SourceContract(name, abi) == [contract_name |-> name, abi |-> abi]

SampleContracts ==
    { SourceContract(<<"S","a","f","e","M","a","t","h","L","i","b">>,
          <<AbiFn(<<"a","d","d">>, <<>>, "pure"), AbiFn(<<"m","u","l">>, <<>>, "pure")>>),
      SourceContract(<<"S","i","m","p","l","e","B","a","n","k">>,
          <<AbiFn(s_deposit, <<>>, "payable"), AbiFn(s_withdraw, <<>>, "nonpayable")>>),
      SourceContract(<<"C","o","u","n","t","e","r">>,
          <<AbiFn(<<"i","n","c","r","e","m","e","n","t">>, <<>>, "nonpayable")>>),
      SourceContract(<<"V","a","u","l","t">>,
          <<AbiFn(<<"g","e","t","B","a","l","a","n","c","e">>, <<>>, "view")>>),
      SourceContract(<<"D","o","n","a","t","i","o","n">>,
          <<AbiFn(<<"d","o","n","a","t","e">>, <<>>, "payable")>>),
      SourceContract(<<"E","R","C","2","0","B","a","n","k">>,
          <<AbiFn(s_deposit, <<>>, "payable")>>) }

Drivers == {"main_multi_episode", "test_single_pipeline", "analyze_contract_from_code"}

\* the drivers that run the Target Filter
FilteringDrivers == {"main_multi_episode", "test_single_pipeline"}

VARIABLES
    \* the driver, the contracts of the source file, whether each deploys
    driver, source_contracts, deploy_ok,
    \* position of the episode: "start", "filter", "setup", "observe",
    \* "execute", "evaluate", "skipped", "error", "done"
    pipe_pc,
    \* indices of the deployed contracts and of the contracts handed to the
    \* later stages
    deployed_contracts, pipe_group,
    \* LLM calls made to get an attack strategy, executor runs, setup and
    \* funding runs
    strategy_llm_calls, attacks_run, setups_run, fundings_run,
    \* the stages run so far, in order
    stages

pipeVars == <<driver, source_contracts, deploy_ok, pipe_pc, deployed_contracts, pipe_group,
              strategy_llm_calls, attacks_run, setups_run, fundings_run, stages>>

InitPipe ==
    /\ driver \in Drivers
    /\ source_contracts \in UNION {[1..m -> SampleContracts] : m \in 1..MaxFileContracts}
    /\ deploy_ok \in [1..Len(source_contracts) -> BOOLEAN]
    /\ pipe_pc = "start"
    /\ deployed_contracts = <<>>
    /\ pipe_group = <<>>
    /\ strategy_llm_calls = 0
    /\ attacks_run = 0
    /\ setups_run = 0
    /\ fundings_run = 0
    /\ stages = <<>>

PipeIdle ==
    /\ driver = "main_multi_episode"
    /\ source_contracts = <<>>
    /\ deploy_ok = <<>>
    /\ pipe_pc = "idle"
    /\ deployed_contracts = <<>>
    /\ pipe_group = <<>>
    /\ strategy_llm_calls = 0
    /\ attacks_run = 0
    /\ setups_run = 0
    /\ fundings_run = 0
    /\ stages = <<>>

\* the indices of the contracts whose deployment succeeds, in file order
DeployedIndices ==
    SelectSeq([k \in 1..Len(source_contracts) |-> k], LAMBDA k : deploy_ok[k])

\* main_multi_episode, test_single_pipeline: every contract of the file is
\* compiled and deployed; a failed deployment is skipped
CompileAndDeploy ==
    /\ pipe_pc = "start"
    /\ driver \in FilteringDrivers
    /\ deployed_contracts' = DeployedIndices
    /\ stages' = <<"Compiler", "Deployer">>
    /\ pipe_pc' = "filter"
    /\ UNCHANGED <<driver, source_contracts, deploy_ok, pipe_group, strategy_llm_calls,
                   attacks_run, setups_run, fundings_run>>

\* contract_group = [ci for ci in ... if is_exploitable_target(ci)]; an empty
\* group ends the episode
FilterTargets ==
    /\ pipe_pc = "filter"
    /\ driver \in FilteringDrivers
    /\ LET kept == SelectSeq(deployed_contracts,
                             LAMBDA k : is_exploitable_target(source_contracts[k]))
       IN  /\ pipe_group' = kept
           /\ pipe_pc' = IF kept = <<>> THEN "skipped" ELSE "setup"
    /\ stages' = Append(stages, "Target Filter")
    /\ UNCHANGED <<driver, source_contracts, deploy_ok, deployed_contracts,
                   strategy_llm_calls, attacks_run, setups_run, fundings_run>>

\* setup_contract and auto_fund_contract_for_attack for every target
SetupAndFund ==
    /\ pipe_pc = "setup"
    /\ setups_run' = setups_run + Len(pipe_group)
    /\ fundings_run' = fundings_run + Len(pipe_group)
    /\ stages' = stages \o <<"Setup Runner", "Funder">>
    /\ pipe_pc' = "observe"
    /\ UNCHANGED <<driver, source_contracts, deploy_ok, deployed_contracts, pipe_group,
                   strategy_llm_calls, attacks_run>>

\* the loop of analyze_contract_from_code over the contracts that
\* compile_and_deploy_all_contracts returned, from the k-th on: each is
\* deployed, then set up and funded, before the next one
RECURSIVE ServiceDeployLoop(_)
ServiceDeployLoop(k) ==
    IF k > Len(DeployedIndices) THEN <<>>
    ELSE <<"Deployer", "Setup Runner", "Funder">> \o ServiceDeployLoop(k + 1)

\* analyze_contract_from_code of the service: every compiled contract is
\* deployed, set up and funded, and every deployed contract goes on to the
\* observation; without a deployed contract the error report is returned
ServiceDeploySetupFund ==
    /\ pipe_pc = "start"
    /\ driver = "analyze_contract_from_code"
    /\ deployed_contracts' = DeployedIndices
    /\ pipe_group' = DeployedIndices
    /\ setups_run' = setups_run + Len(DeployedIndices)
    /\ fundings_run' = fundings_run + Len(DeployedIndices)
    /\ stages' = <<"Compiler", "Deployer">> \o ServiceDeployLoop(1)
    /\ pipe_pc' = IF DeployedIndices = <<>> THEN "error" ELSE "observe"
    /\ UNCHANGED <<driver, source_contracts, deploy_ok, strategy_llm_calls, attacks_run>>

\* the observation, the Slither run and the attack strategy: one policy call
\* in main_multi_episode, the analysis call and the attack-code call of
\* generate_complete_attack_strategy in the other drivers; the service
\* returns its error report when Slither fails
GenerateStrategy ==
    /\ pipe_pc = "observe"
    /\ \E slither_ok \in BOOLEAN, has_code \in BOOLEAN :
          IF driver = "analyze_contract_from_code" /\ ~slither_ok
          THEN /\ pipe_pc' = "error"
               /\ stages' = Append(stages, "Observer")
               /\ UNCHANGED strategy_llm_calls
          ELSE /\ strategy_llm_calls' = strategy_llm_calls
                                        + (IF driver = "main_multi_episode" THEN 1 ELSE 2)
               /\ stages' = stages \o <<"Observer", "Attack Strategist">>
               /\ pipe_pc' = IF has_code THEN "execute" ELSE "evaluate"
    /\ UNCHANGED <<driver, source_contracts, deploy_ok, deployed_contracts, pipe_group,
                   attacks_run, setups_run, fundings_run>>

\* execute_attack_on_contracts on the group
ExecuteAttack ==
    /\ pipe_pc = "execute"
    /\ attacks_run' = attacks_run + 1
    /\ stages' = Append(stages, "Attack Executor")
    /\ pipe_pc' = "evaluate"
    /\ UNCHANGED <<driver, source_contracts, deploy_ok, deployed_contracts, pipe_group,
                   strategy_llm_calls, setups_run, fundings_run>>

\* the evaluation and the record of the episode, or the report of the service
FinishEpisode ==
    /\ pipe_pc = "evaluate"
    /\ stages' = IF driver = "analyze_contract_from_code" THEN stages
                 ELSE stages \o <<"Reward Evaluator", "Results Manager">>
    /\ pipe_pc' = "done"
    /\ UNCHANGED <<driver, source_contracts, deploy_ok, deployed_contracts, pipe_group,
                   strategy_llm_calls, attacks_run, setups_run, fundings_run>>

(***************************************************************************)
(* Target Filter: is_exploitable_target applied to one contract.           *)
(***************************************************************************)
MaxNameWords == 2

\* the first word of a contract name: the names of both lists as the code
\* writes them, and words in the capitals a Solidity source uses
NameWords ==
    important_names \cup safe_names \cup
    { <<"W","a","l","l","e","t">>, <<"D","A","O">>, <<"T","o","k","e","n">>, <<"M","y">> }

\* the words that follow it
NameSuffixes ==
    { <<"W","a","l","l","e","t">>, <<"B","a","n","k">>, <<"T","o","k","e","n">>,
      <<"E","R","C","2","0">>, <<"L","i","b","r","a","r","y">>, <<"V","1">> }

\* the contract names made of at least one and at most MaxNameWords words
ContractNames ==
    {w \o Flatten(ws) : w \in NameWords,
                        ws \in UNION {[1..m -> NameSuffixes] : m \in 0..(MaxNameWords - 1)}}

\* the ABI of a compiled contract: nothing, pure functions, a payable
\* function, functions about balances or a jackpot, an event about funds
FilterAbis ==
    { <<>>,
      <<AbiFn(<<"a","d","d">>, <<>>, "pure")>>,
      <<AbiFn(s_withdraw, <<>>, "nonpayable"), AbiFn(s_deposit, <<>>, "payable")>>,
      <<AbiFn(<<"g","e","t","B","a","l","a","n","c","e">>, <<>>, "view")>>,
      <<AbiFn(<<"J","a","c","k","p","o","t">>, <<>>, "nonpayable")>>,
      <<[type |-> "event", name |-> <<"F","u","n","d","e","d">>, inputs |-> <<>>,
         stateMutability |-> ""] >> }

VARIABLES
    \* the contract_info argument; "called" once the function returned; what
    \* it returned
    contract_info, filter_pc, filter_result

filterVars == <<contract_info, filter_pc, filter_result>>

InitFilter ==
    /\ contract_info \in {SourceContract(n, a) : n \in ContractNames, a \in FilterAbis}
    /\ filter_pc = "call"
    /\ filter_result = FALSE

FilterIdle ==
    /\ contract_info = SourceContract(<<>>, <<>>)
    /\ filter_pc = "idle"
    /\ filter_result = FALSE

\* a call of is_exploitable_target(contract_info)
CallIsExploitableTarget ==
    /\ filter_pc = "call"
    /\ filter_result' = is_exploitable_target(contract_info)
    /\ filter_pc' = "called"
    /\ UNCHANGED contract_info

(***************************************************************************)
(* Contract Observer: get_public_getters_and_vars_state on one contract.   *)
(***************************************************************************)
MaxAbiLen == 2

\* ABI entries of a deployed contract (function names are dictionary keys
\* only, and kept as plain strings)
ObserverAbiEntries ==
    { AbiFn("owner", <<>>, "view"),
      AbiFn("version", <<>>, "pure"),
      AbiFn("balances", <<AbiIn(s_to, s_address)>>, "view"),
      AbiFn("items", <<AbiIn(s_n, s_uint256)>>, "view"),
      AbiFn("slots", <<AbiIn(s_n, <<"u","i","n","t","8">>)>>, "view"),
      AbiFn("flags", <<AbiIn(s_n, s_bool)>>, "view"),
      AbiFn("allowance", <<AbiIn(s_to, s_address), AbiIn(s_n, s_address)>>, "view"),
      AbiFn("deposit", <<>>, "payable"),
      [type |-> "event", name |-> "Deposit", inputs |-> <<>>, stateMutability |-> ""] }

\* which call of an entry raises: none, the first, the third
RevertAt == {0, 1, 3}

VARIABLES
    \* contract_info["abi"], what the chain answers to the calls of each
    \* entry, the balance of the contract
    obs_abi, obs_calls, obs_balance,
    \* "call", then "returned"; the dictionary returned
    obs_pc, obs_state

obsVars == <<obs_abi, obs_calls, obs_balance, obs_pc, obs_state>>

InitObs ==
    /\ \E m \in 0..MaxAbiLen :
          /\ obs_abi \in [1..m -> ObserverAbiEntries]
          /\ obs_calls \in [1..m -> RevertAt]
    /\ obs_balance \in ObservedBalances
    /\ obs_pc = "call"
    /\ obs_state = <<>>

ObsIdle ==
    /\ obs_abi = <<>>
    /\ obs_calls = <<>>
    /\ obs_balance = 0
    /\ obs_pc = "idle"
    /\ obs_state = <<>>

\* a call of get_public_getters_and_vars_state(w3, contract_info)
ObservePublicState ==
    /\ obs_pc = "call"
    /\ obs_state' = get_public_getters_and_vars_state(obs_balance, obs_abi, obs_calls)
    /\ obs_pc' = "returned"
    /\ UNCHANGED <<obs_abi, obs_calls, obs_balance>>

(***************************************************************************)
(* Attack Strategist: parse_attack_code_response.  A response is a         *)
(* sequence of tokens: fences, language tags, newlines, spaces, braces and *)
(* pieces of text without any of them.                                     *)
(***************************************************************************)
MaxFunctions == 1

\* the token for three backquotes
Fence == "<fence>"
Newline == "\n"

\* (?:solidity)? under re.IGNORECASE
IsSolidityTag(t) == t \in {"solidity", "Solidity"}

\* the lines of an attacker contract
PragmaLine   == <<"pragma solidity ^0.8.0;">>
ContractLine == <<"contract Attack ", "{">>
FunctionLine == <<" ", "function attack() public ", "{">>
StmtLine     == <<" ", " ", "target.withdraw();">>
FunctionEnd  == <<" ", "}">>
ContractEnd  == <<"}">>
ProseLine    == <<"Here is the exploit.">>

RECURSIVE FunctionLines(_)
FunctionLines(k) ==
    IF k = 0 THEN <<>> ELSE <<FunctionLine, StmtLine, FunctionEnd>> \o FunctionLines(k - 1)

\* an attacker contract with k functions, with or without its pragma line
AttackContract(with_pragma, k) ==
    (IF with_pragma THEN <<PragmaLine>> ELSE <<>>)
    \o <<ContractLine>> \o FunctionLines(k) \o <<ContractEnd>>

\* the shapes of a response: prose before and after, an opening fence line
\* ("" for none), blank lines around the code, the code, a closing fence
ResponseParts ==
    [prefix : BOOLEAN, open : {"", "plain", "solidity", "Solidity", "python"},
     padded : BOOLEAN, with_code : BOOLEAN, with_pragma : BOOLEAN,
     functions : 0..MaxFunctions, close : BOOLEAN, suffix : BOOLEAN]

\* the lines between the fences
BlockLines(parts) ==
    LET body == IF parts.with_code
                THEN AttackContract(parts.with_pragma, parts.functions) ELSE <<>>
    IN  IF parts.padded THEN <<<<>>, <<" ">>>> \o body \o <<<<" ", " ">>>> ELSE body

OpenLine(parts) ==
    IF parts.open = "" THEN <<>>
    ELSE IF parts.open = "plain" THEN <<<<Fence>>>>
    ELSE <<<<Fence, parts.open>>>>

ResponseLines(parts) ==
    (IF parts.prefix THEN <<ProseLine>> ELSE <<>>)
    \o OpenLine(parts) \o BlockLines(parts)
    \o (IF parts.close THEN <<<<Fence>>>> ELSE <<>>)
    \o (IF parts.suffix THEN <<ProseLine>> ELSE <<>>)

\* str.join of the lines with newlines between them
RECURSIVE JoinLines(_)
JoinLines(lines) ==
    IF lines = <<>> THEN <<>>
    ELSE IF Len(lines) = 1 THEN lines[1]
    ELSE lines[1] \o <<Newline>> \o JoinLines(Tail(lines))

\* str.split at the newlines
RECURSIVE SplitLines(_)
SplitLines(r) ==
    IF \A k \in 1..Len(r) : r[k] # Newline THEN <<r>>
    ELSE LET n == CHOOSE k \in 1..Len(r) : r[k] = Newline /\ \A j \in 1..(k - 1) : r[j] # Newline
         IN  <<SubSeq(r, 1, n - 1)>> \o SplitLines(SubSeq(r, n + 1, Len(r)))

\* what the LLM call hands to the parser: a text, or None
StrResponse(text) == [kind |-> "str", text |-> text]
NoneResponse == [kind |-> "None", text |-> <<>>]

\* the position after the fence at p and its optional tag
AfterFence(r, p) == IF p + 1 <= Len(r) /\ IsSolidityTag(r[p + 1]) THEN p + 2 ELSE p + 1

\* the pattern <fence>(?:solidity)?\n([\s\S]+?)<fence> matches at position p
CodeMatchAt(r, p) ==
    /\ r[p] = Fence
    /\ LET a == AfterFence(r, p)
       IN  /\ a <= Len(r)
           /\ r[a] = Newline
           /\ \E e \in (a + 2)..Len(r) : r[e] = Fence

\* group(1) of the leftmost match, the lazy group ending at the first fence
CodeGroup(r) ==
    LET p == CHOOSE q \in 1..Len(r) : CodeMatchAt(r, q) /\ \A j \in 1..(q - 1) : ~CodeMatchAt(r, j)
        a == AfterFence(r, p)
        e == CHOOSE q \in (a + 2)..Len(r) :
                r[q] = Fence /\ \A j \in (a + 2)..(q - 1) : r[j] # Fence
    IN  SubSeq(r, a + 1, e - 1)

\* code_match.group(1) kept as it is
fenced_code_Unstripped(group) == group

\* code_match.group(1).strip()
fenced_code(group) == Strip(group)

\* every line taken for a pragma line
HasPragma_AnyLine(line) == TRUE

\* the test of a line for "pragma solidity"
HasPragma(line) == \E k \in 1..Len(line) : line[k] = PragmaLine[1]

\* line.count(ch)
Count(line, ch) == Cardinality({k \in 1..Len(line) : line[k] = ch})

\* the stripped line starts with } and does not end with {
IsClosingLine(line) ==
    LET s == Strip(line)
    IN  s # <<>> /\ s[1] = "}" /\ s[Len(s)] # "{"

\* the loop over the lines from the k-th on: code_lines at the break or at
\* the end of the lines
RECURSIVE FallbackScan(_, _, _, _)
FallbackScan(lines, k, in_code, code_lines) ==
    IF k > Len(lines) THEN code_lines
    ELSE IF HasPragma(lines[k])
         THEN FallbackScan(lines, k + 1, TRUE, Append(code_lines, lines[k]))
    ELSE IF in_code /\ IsClosingLine(lines[k])
         THEN IF Count(lines[k], "}") >= Count(lines[k], "{")
              THEN Append(code_lines, lines[k])
              ELSE FallbackScan(lines, k + 1, in_code, Append(code_lines, lines[k]))
    ELSE IF in_code
         THEN FallbackScan(lines, k + 1, in_code, Append(code_lines, lines[k]))
    ELSE FallbackScan(lines, k + 1, in_code, code_lines)

\* parse_attack_code_response: re.search on None raises a TypeError inside
\* the try block, whose handler logs it; code and code_type keep their
\* initial values then
parse_attack_code_response(llm_response) ==
    IF llm_response.kind = "None"
    THEN [raised |-> FALSE, code |-> <<>>, code_type |-> "solidity"]
    ELSE LET r == llm_response.text
         IN  [raised |-> FALSE,
              code |-> IF \E p \in 1..Len(r) : CodeMatchAt(r, p)
                       THEN fenced_code(CodeGroup(r))
                       ELSE JoinLines(FallbackScan(SplitLines(r), 1, FALSE, <<>>)),
              code_type |-> "solidity"]

VARIABLES
    \* the shape of the response, the response, "call" or "returned", what
    \* the parser returned
    response_parts, llm_response, parser_pc, parsed

parserVars == <<response_parts, llm_response, parser_pc, parsed>>

NoParts ==
    [prefix |-> FALSE, open |-> "", padded |-> FALSE, with_code |-> FALSE,
     with_pragma |-> FALSE, functions |-> 0, close |-> FALSE, suffix |-> FALSE]

InitParser ==
    /\ \/ /\ response_parts \in ResponseParts
          /\ llm_response = StrResponse(JoinLines(ResponseLines(response_parts)))
       \/ /\ response_parts = NoParts
          /\ llm_response \in {StrResponse(<<"ERROR: ", "timeout">>), NoneResponse}
    /\ parser_pc = "call"
    /\ parsed = [raised |-> FALSE, code |-> <<>>, code_type |-> ""]

ParserIdle ==
    /\ response_parts = NoParts
    /\ llm_response = NoneResponse
    /\ parser_pc = "idle"
    /\ parsed = [raised |-> FALSE, code |-> <<>>, code_type |-> ""]

CallParseAttackCodeResponse ==
    /\ parser_pc = "call"
    /\ parsed' = parse_attack_code_response(llm_response)
    /\ parser_pc' = "returned"
    /\ UNCHANGED <<response_parts, llm_response>>

(***************************************************************************)
(* The report of the service: try_single_attack and the verdict of         *)
(* analyze_contract_from_code, from the attack strategy on.                *)
(***************************************************************************)
\* texts of a vulnerability assessment
NoVulnText == <<"N","o"," ","v","u","l","n","e","r","a","b","i","l","i","t","i","e","s">>
VulnText   == <<"R","e","e","n","t","r","a","n","c","y">>

\* what query_policy_model returns for the analysis prompt: the "ERROR: ..."
\* text of a call that raised, a text without the section titles, or the
\* sections
AnalysisReplies ==
    { [kind |-> "error", analysis |-> <<>>, assessment |-> <<>>],
      [kind |-> "prose", analysis |-> <<>>, assessment |-> <<>>],
      [kind |-> "sections", analysis |-> <<"o","k">>, assessment |-> NoVulnText],
      [kind |-> "sections", analysis |-> <<"o","k">>, assessment |-> VulnText] }

\* what it returns for the attack-code prompt: the "ERROR: ..." text, a text
\* without code, or a fenced Solidity block
CodeReplies ==
    { StrResponse(<<"ERROR: ", "timeout">>),
      StrResponse(ProseLine),
      StrResponse(JoinLines(<<<<Fence, "solidity">>>> \o AttackContract(TRUE, 0) \o <<<<Fence>>>>)) }

\* parse_analysis_response: the sections found, "" for each one missing
parse_analysis_response(reply) ==
    IF reply.kind = "sections"
    THEN [contract_analysis |-> reply.analysis, vulnerability_assessment |-> reply.assessment]
    ELSE [contract_analysis |-> <<>>, vulnerability_assessment |-> <<>>]

\* generate_complete_attack_strategy: the fields the service reads (the key
\* execution_result, added by the service, is an empty sequence while absent)
generate_complete_attack_strategy(analysis_reply, code_reply) ==
    [reasoning |-> parse_analysis_response(analysis_reply).contract_analysis,
     summary   |-> parse_analysis_response(analysis_reply).vulnerability_assessment,
     code      |-> parse_attack_code_response(code_reply).code,
     execution_result |-> <<>>]

\* the verdict of analyze_contract_from_code on a strategy that is a
\* non-empty dictionary
has_vulnerability(strategy) ==
    LET has_code == strategy.code # <<>>
        no_vulnerabilities_mentioned ==
            Contains(Lower(strategy.summary),
                     <<"n","o"," ","v","u","l","n","e","r","a","b","i","l","i","t">>)
        attack_executed == strategy.execution_result # <<>>
        attack_succeeded == attack_executed /\ strategy.execution_result[1].success
        found == (has_code /\ (~attack_executed \/ attack_succeeded))
                    \/ ~no_vulnerabilities_mentioned
    IN  IF no_vulnerabilities_mentioned THEN FALSE ELSE found

VARIABLES
    \* what the two LLM calls answer, whether the attack succeeds when it is
    \* executed, whether the funding succeeded
    analysis_reply, code_reply, exec_success, funding_success,
    \* "strategy", "verdict", "returned"; the strategy and the attack result
    \* of try_single_attack (the result is an empty sequence for None); the
    \* dictionary returned
    svc_pc, attack_strategy, attack_result, report

svcVars == <<analysis_reply, code_reply, exec_success, funding_success,
             svc_pc, attack_strategy, attack_result, report>>

InitSvc ==
    /\ analysis_reply \in AnalysisReplies
    /\ code_reply \in CodeReplies
    /\ exec_success \in BOOLEAN
    /\ funding_success \in BOOLEAN
    /\ svc_pc = "strategy"
    /\ attack_strategy = None
    /\ attack_result = <<>>
    /\ report = None

SvcIdle ==
    /\ analysis_reply = [kind |-> "error", analysis |-> <<>>, assessment |-> <<>>]
    /\ code_reply = StrResponse(<<"ERROR: ", "timeout">>)
    /\ exec_success = FALSE
    /\ funding_success = FALSE
    /\ svc_pc = "idle"
    /\ attack_strategy = None
    /\ attack_result = <<>>
    /\ report = None

\* try_single_attack and lines 277-284 of analyze_contract_from_code: without
\* code no attack is executed and the result is None; a successful result is
\* stored in the strategy
TrySingleAttack ==
    /\ svc_pc = "strategy"
    /\ LET strategy == generate_complete_attack_strategy(analysis_reply, code_reply)
           res == IF strategy.code = <<>> THEN <<>> ELSE <<[success |-> exec_success]>>
       IN  /\ attack_result' = res
           /\ attack_strategy' =
                 IF res # <<>> /\ res[1].success
                 THEN [strategy EXCEPT !.execution_result = res]
                 ELSE strategy
    /\ svc_pc' = "verdict"
    /\ UNCHANGED <<analysis_reply, code_reply, exec_success, funding_success, report>>

\* lines 373-415 of analyze_contract_from_code: the report
ReturnReport ==
    /\ svc_pc = "verdict"
    /\ LET attack_executed == attack_strategy.execution_result # <<>>
       IN  report' =
             [status |-> IF has_vulnerability(attack_strategy) THEN "KO" ELSE "OK",
              attack |-> IF has_vulnerability(attack_strategy)
                         THEN "Smart Contract Vulnerability" ELSE None,
              reasoning |-> attack_strategy.reasoning,
              summary |-> attack_strategy.summary,
              code |-> attack_strategy.code,
              contract_funding_success |-> funding_success,
              attack_executed |-> attack_executed,
              attack_succeeded |-> attack_executed
                                   /\ attack_strategy.execution_result[1].success]
    /\ svc_pc' = "returned"
    /\ UNCHANGED <<analysis_reply, code_reply, exec_success, funding_success,
                   attack_strategy, attack_result>>

(***************************************************************************)
(* Driving loop: main_multi_episode of rlhf_agent/agent.py.                *)
(***************************************************************************)
\* stands for MAX_EPISODES of agent.py (5000 there)
MAX_EPISODES == 3

\* a test chain: which provider instance it is, how many contracts were
\* deployed on it and whether a funding transaction was sent on it
EthereumTesterProvider_Reused(chain, n) == [chain EXCEPT !.instance = n]

\* Web3(EthereumTesterProvider()): a new in-memory chain, whatever the
\* chain in use before held
EthereumTesterProvider(chain, n) == [instance |-> n, contracts |-> 0, funded |-> FALSE]

\* one line of the log
LogLine(msg, n) == [msg |-> msg, n |-> n]

\* the positions inside the try block of one episode
StagePcs == {"deploy", "fund", "attack", "sft"}

\* the positions inside the while loop
LoopPcs == StagePcs \cup {"while", "increment", "sleep"}

VARIABLES
    \* the .sol files found in DATA_FOLDER
    test_files,
    \* the position in main_multi_episode: "start", a position of LoopPcs,
    \* "final_log", "done"
    loop_pc,
    \* the local variable episode
    loop_episode,
    \* the global test chain
    w3,
    \* the episodes whose record was written to the buffer file
    loop_buffer,
    \* the lines logged
    loop_log,
    \* how the loop was left: "" while it runs, "no_files", "exhausted",
    \* "interrupt"; the position at which a KeyboardInterrupt arrived
    loop_exit, interrupted_in

loopVars == <<test_files, loop_pc, loop_episode, w3, loop_buffer, loop_log,
              loop_exit, interrupted_in>>

InitLoop ==
    /\ test_files \in {<<>>, <<"Vault.sol">>}
    /\ loop_pc = "start"
    /\ loop_episode = 0
    /\ w3 = [instance |-> 0, contracts |-> 0, funded |-> FALSE]
    /\ loop_buffer = <<>>
    /\ loop_log = <<>>
    /\ loop_exit = ""
    /\ interrupted_in = ""

LoopIdle ==
    /\ test_files = <<>>
    /\ loop_pc = "idle"
    /\ loop_episode = 0
    /\ w3 = [instance |-> 0, contracts |-> 0, funded |-> FALSE]
    /\ loop_buffer = <<>>
    /\ loop_log = <<>>
    /\ loop_exit = ""
    /\ interrupted_in = ""

\* lines 787-790: without a .sol file the function returns before the loop
ReturnNoFiles ==
    /\ loop_pc = "start"
    /\ test_files = <<>>
    /\ loop_log' = Append(loop_log, LogLine("no_files", 0))
    /\ loop_exit' = "no_files"
    /\ loop_pc' = "done"
    /\ UNCHANGED <<test_files, loop_episode, w3, loop_buffer, interrupted_in>>

\* line 791
EnterLoop ==
    /\ loop_pc = "start"
    /\ test_files # <<>>
    /\ loop_episode' = 0
    /\ loop_pc' = "while"
    /\ UNCHANGED <<test_files, w3, loop_buffer, loop_log, loop_exit, interrupted_in>>

\* lines 793-798: the loop test; an iteration picks a file, logs the
\* episode and replaces the global chain by a new one
WhileTest ==
    /\ loop_pc = "while"
    /\ IF loop_episode < MAX_EPISODES
       THEN /\ loop_log' = Append(loop_log, LogLine("start", loop_episode + 1))
            /\ w3' = EthereumTesterProvider(w3, w3.instance + 1)
            /\ loop_pc' = "deploy"
            /\ UNCHANGED loop_exit
       ELSE /\ loop_exit' = "exhausted"
            /\ loop_pc' = "final_log"
            /\ UNCHANGED <<loop_log, w3>>
    /\ UNCHANGED <<test_files, loop_episode, loop_buffer, interrupted_in>>

\* lines 800-809: compile and deploy, filter, set up (n_all and n_targets are
\* the lengths of contract_group_all and of contract_group); without a target the episode is counted and
\* skipped
DeployFilterSetup ==
    /\ loop_pc = "deploy"
    /\ \E n_all \in 0..1 : \E n_targets \in 0..n_all :
          /\ w3' = [w3 EXCEPT !.contracts = n_all]
          /\ IF n_targets = 0
             THEN /\ loop_log' = Append(loop_log, LogLine("skip", loop_episode + 1))
                  /\ loop_episode' = loop_episode + 1
                  /\ loop_pc' = "sleep"
             ELSE /\ loop_pc' = "fund"
                  /\ UNCHANGED <<loop_log, loop_episode>>
    /\ UNCHANGED <<test_files, loop_buffer, loop_exit, interrupted_in>>

\* lines 811-819
Funding ==
    /\ loop_pc = "fund"
    /\ w3' = [w3 EXCEPT !.funded = TRUE]
    /\ loop_pc' = "attack"
    /\ UNCHANGED <<test_files, loop_episode, loop_buffer, loop_log, loop_exit, interrupted_in>>

\* lines 821-825: run_one_attack_episode saves the record as its last step;
\* a good sample goes on to the SFT monitoring
RunOneAttackEpisode ==
    /\ loop_pc = "attack"
    /\ \E good \in BOOLEAN :
          /\ loop_buffer' = Append(loop_buffer, loop_episode + 1)
          /\ loop_log' = Append(loop_log, LogLine("success", loop_episode + 1))
          /\ loop_pc' = IF good THEN "sft" ELSE "increment"
    /\ UNCHANGED <<test_files, loop_episode, w3, loop_exit, interrupted_in>>

\* lines 826-833
SftMonitoring ==
    /\ loop_pc = "sft"
    /\ loop_log' = Append(loop_log, LogLine("sft", loop_episode + 1))
    /\ loop_pc' = "increment"
    /\ UNCHANGED <<test_files, loop_episode, w3, loop_buffer, loop_exit, interrupted_in>>

\* lines 834-835: an Exception raised anywhere in the try block (the LLM
\* calls of run_one_attack_episode raise when the request fails) is logged
\* and the loop goes on
StageRaises ==
    /\ loop_pc \in StagePcs
    /\ loop_log' = Append(loop_log, LogLine("error", loop_episode + 1))
    /\ loop_pc' = "increment"
    /\ UNCHANGED <<test_files, loop_episode, w3, loop_buffer, loop_exit, interrupted_in>>

\* line 836
IncrementEpisode ==
    /\ loop_pc = "increment"
    /\ loop_episode' = loop_episode + 1
    /\ loop_pc' = "sleep"
    /\ UNCHANGED <<test_files, w3, loop_buffer, loop_log, loop_exit, interrupted_in>>

\* lines 808 and 837: time.sleep(PAUSE_BETWEEN_EPISODES)
Sleep ==
    /\ loop_pc = "sleep"
    /\ loop_pc' = "while"
    /\ UNCHANGED <<test_files, loop_episode, w3, loop_buffer, loop_log, loop_exit, interrupted_in>>

\* lines 838-839: KeyboardInterrupt is not an Exception, so the handler of
\* line 834 lets it through; the only handler is outside the while loop
KeyboardInterrupt ==
    /\ loop_pc \in LoopPcs
    /\ interrupted_in' = loop_pc
    /\ loop_log' = Append(loop_log, LogLine("interrupt", loop_episode))
    /\ loop_exit' = "interrupt"
    /\ loop_pc' = "final_log"
    /\ UNCHANGED <<test_files, loop_episode, w3, loop_buffer>>

\* line 840
FinalLog ==
    /\ loop_pc = "final_log"
    /\ loop_log' = Append(loop_log, LogLine("finished", loop_episode))
    /\ loop_pc' = "done"
    /\ UNCHANGED <<test_files, loop_episode, w3, loop_buffer, loop_exit, interrupted_in>>

\* the steps of the program itself, the interruption left out
LoopProgramStep ==
    \/ ReturnNoFiles \/ EnterLoop \/ WhileTest \/ DeployFilterSetup \/ Funding
    \/ RunOneAttackEpisode \/ SftMonitoring \/ StageRaises \/ IncrementEpisode
    \/ Sleep \/ FinalLog

(***************************************************************************)
(* Deployer: deploy_contract and the loops that call it, in                *)
(* compile_and_deploy_all_contracts and in test_single_pipeline.           *)
(***************************************************************************)
\* what happens when the deployment transaction of a contract is sent: it
\* is mined, the constructor reverts, the gas runs out, or the arguments
\* deduced for the constructor do not fit it
DeployOutcomes == {"ok", "revert", "out_of_gas", "bad_args"}

\* a compiled contract, with the number of inputs of its constructor and
\* what its deployment will meet
CompiledContract(name, ctor_inputs, outcome) ==
    [contract_name |-> name, constructor_inputs |-> ctor_inputs, outcome |-> outcome,
     address |-> 0]

\* without inputs no arguments are deduced
DeployCases ==
    {c \in (0..1) \X DeployOutcomes : c[1] = 0 => c[2] # "bad_args"}

\* the contracts compiled from one file, named after their place in it
CompiledFiles ==
    {[k \in 1..Len(cs) |-> CompiledContract(TargetName(k), cs[k][1], cs[k][2])] :
        cs \in UNION {[1..m -> DeployCases] : m \in 1..MaxFileContracts}}

\* what a call returns or raises: the value returned is a sequence, empty
\* for None
Returned(value) == [raised |-> FALSE, value |-> value]
RaisedException == [raised |-> TRUE, value |-> <<>>]

\* deploy_contract that lets the failure of the transaction through
deploy_contract_Propagating(ci, address) ==
    IF ci.outcome = "ok"
    THEN Returned(<<[ci EXCEPT !.address = address]>>)
    ELSE RaisedException

\* deploy_contract: the whole body is in a try block whose handler returns
\* None; otherwise the contract information ci is returned with its address
deploy_contract(ci, address) ==
    IF ci.outcome = "ok"
    THEN Returned(<<[ci EXCEPT !.address = address]>>)
    ELSE Returned(<<>>)

DeployCallers == {"compile_and_deploy_all_contracts", "test_single_pipeline"}

VARIABLES
    \* the function that runs the loop, the contracts compiled from the file
    dep_caller, compiled_contracts,
    \* "loop", "returned", "failed"; the place in compiled_contracts of the
    \* next contract
    dep_pc, dep_index,
    \* the list deployed_contracts of the caller; the places of the
    \* contracts deploy_contract was called on; whether a call of
    \* deploy_contract raised
    dep_deployed, dep_attempts, dep_raised

deployVars == <<dep_caller, compiled_contracts, dep_pc, dep_index, dep_deployed,
                dep_attempts, dep_raised>>

InitDeploy ==
    /\ dep_caller \in DeployCallers
    /\ compiled_contracts \in CompiledFiles
    /\ dep_pc = "loop"
    /\ dep_index = 1
    /\ dep_deployed = <<>>
    /\ dep_attempts = <<>>
    /\ dep_raised = FALSE

DeployIdle ==
    /\ dep_caller = "compile_and_deploy_all_contracts"
    /\ compiled_contracts = <<>>
    /\ dep_pc = "idle"
    /\ dep_index = 1
    /\ dep_deployed = <<>>
    /\ dep_attempts = <<>>
    /\ dep_raised = FALSE

\* one turn of the loop: deploy_contract is called and its result is kept
\* when it is not None; an exception leaves the loop, for the handler of
\* compile_and_deploy_all_contracts, which returns [], or for the one of
\* test_single_pipeline
DeployNext ==
    /\ dep_pc = "loop"
    /\ dep_index <= Len(compiled_contracts)
    /\ LET deployed_contract ==
               deploy_contract(compiled_contracts[dep_index], Len(dep_deployed) + 1)
       IN  /\ dep_attempts' = Append(dep_attempts, dep_index)
           /\ dep_raised' = (dep_raised \/ deployed_contract.raised)
           /\ IF deployed_contract.raised
              THEN /\ dep_deployed' = IF dep_caller = "compile_and_deploy_all_contracts"
                                      THEN <<>> ELSE dep_deployed
                   /\ dep_pc' = IF dep_caller = "compile_and_deploy_all_contracts"
                                THEN "returned" ELSE "failed"
                   /\ UNCHANGED dep_index
              ELSE /\ dep_deployed' = dep_deployed \o deployed_contract.value
                   /\ dep_index' = dep_index + 1
                   /\ UNCHANGED dep_pc
    /\ UNCHANGED <<dep_caller, compiled_contracts>>

\* the end of the loop
ReturnDeployed ==
    /\ dep_pc = "loop"
    /\ dep_index > Len(compiled_contracts)
    /\ dep_pc' = "returned"
    /\ UNCHANGED <<dep_caller, compiled_contracts, dep_index, dep_deployed, dep_attempts,
                   dep_raised>>

(***************************************************************************)
(* Setup Runner: setup_contract and should_call_setup_fn.                  *)
(***************************************************************************)
MaxSetupFns == 2

\* setup functions of a contract: their names contain a word of
\* find_setup_functions ("register", "init", "set")
SetupFnNames == {"register_purchase", "init_rounds", "set_percent_reduction",
                 "Set_Percent_Reduction"}

\* fn['name'].lower()
SetupNameLower(name) ==
    IF name = "Set_Percent_Reduction" THEN "set_percent_reduction" ELSE name

\* the state of the contract on the chain: its variables bought_tokens and
\* rounds, and whether they are public (have getters)
ChainStates == [bought_tokens : BOOLEAN, rounds : 0..1, public : BOOLEAN]

\* what a mined call of a setup function does to the contract
SetupEffect(name, st) ==
    IF name = "register_purchase" THEN [st EXCEPT !.bought_tokens = TRUE]
    ELSE IF name = "init_rounds" THEN [st EXCEPT !.rounds = 0]
    ELSE st

\* get_public_getters_and_vars_state, as far as should_call_setup_fn reads
\* it: the keys present and their values
ReadPublicState(st) ==
    [has |-> st.public, bought_tokens |-> st.bought_tokens, rounds |-> st.rounds]

\* should_call_setup_fn: contract_state.get("bought_tokens", False) and
\* contract_state.get("rounds", 1)
should_call_setup_fn(name, contract_state) ==
    IF SetupNameLower(name) = "set_percent_reduction"
    THEN /\ (IF contract_state.has THEN contract_state.bought_tokens ELSE FALSE)
         /\ (IF contract_state.has THEN contract_state.rounds ELSE 1) = 0
    ELSE TRUE

\* the sequences of distinct setup functions an ABI declares
SetupFnLists ==
    {fs \in UNION {[1..m -> SetupFnNames] : m \in 1..MaxSetupFns} :
        \A a, b \in 1..Len(fs) : a # b => fs[a] # fs[b]}

VARIABLES
    \* the setup functions found in the ABI, the contract on the chain
    setup_fns, chain_state,
    \* "read", "loop", "done"; the place of the next setup function
    setup_pc, setup_index,
    \* the dictionary contract_state of setup_contract
    contract_state,
    \* one entry per setup function met: its name, the decision of the gate,
    \* what the gate says on the state of the chain at that moment, and
    \* whether the call was mined
    setup_log

setupVars == <<setup_fns, chain_state, setup_pc, setup_index, contract_state, setup_log>>

InitSetup ==
    /\ setup_fns \in SetupFnLists
    /\ chain_state \in ChainStates
    /\ setup_pc = "read"
    /\ setup_index = 1
    /\ contract_state = [has |-> FALSE, bought_tokens |-> FALSE, rounds |-> 0]
    /\ setup_log = <<>>

SetupIdle ==
    /\ setup_fns = <<>>
    /\ chain_state = [bought_tokens |-> FALSE, rounds |-> 0, public |-> FALSE]
    /\ setup_pc = "idle"
    /\ setup_index = 1
    /\ contract_state = [has |-> FALSE, bought_tokens |-> FALSE, rounds |-> 0]
    /\ setup_log = <<>>

\* the state is read once, before the loop
ReadContractState ==
    /\ setup_pc = "read"
    /\ contract_state' = ReadPublicState(chain_state)
    /\ setup_pc' = "loop"
    /\ UNCHANGED <<setup_fns, chain_state, setup_index, setup_log>>

\* one turn of the loop: the gate, on contract_state; then the call, whose
\* transaction is mined or fails (the failure is caught and logged)
SetupCall ==
    /\ setup_pc = "loop"
    /\ setup_index <= Len(setup_fns)
    /\ LET fn == setup_fns[setup_index]
           gate == should_call_setup_fn(fn, contract_state)
           fresh == should_call_setup_fn(fn, ReadPublicState(chain_state))
       IN  \E mined \in BOOLEAN :
              /\ chain_state' = IF gate /\ mined THEN SetupEffect(fn, chain_state)
                                ELSE chain_state
              /\ setup_log' = Append(setup_log,
                                 [fn |-> fn, gate |-> gate, fresh |-> fresh,
                                  mined |-> gate /\ mined])
    /\ setup_index' = setup_index + 1
    /\ UNCHANGED <<setup_fns, setup_pc, contract_state>>

SetupReturn ==
    /\ setup_pc = "loop"
    /\ setup_index > Len(setup_fns)
    /\ setup_pc' = "done"
    /\ UNCHANGED <<setup_fns, chain_state, setup_index, contract_state, setup_log>>

(***************************************************************************)
(* Funder: auto_fund_contract_for_attack, in modules/contract_deployer.py  *)
(* and in rlhf_agent/agent.py.                                             *)
(***************************************************************************)
MaxFundAbi == 2

\* what a transaction that carries value does: the contract keeps the
\* value, the transaction is mined but the contract passes the value on, or
\* the transaction fails
SendOutcomes == {"keeps", "forwards", "reverts"}

\* the entries of an ABI the funder tells apart: payable functions without
\* inputs, with what a call of them does, and any other entry
FundAbiEntries ==
    {[payable0 |-> TRUE, outcome |-> o] : o \in SendOutcomes}
    \cup {[payable0 |-> FALSE, outcome |-> "reverts"]}

FundAbis == UNION {[1..m -> FundAbiEntries] : m \in 0..MaxFundAbi}

\* one transaction sent: through the ABI entry at a place, or directly
\* (place 0); whether it was mined; whether funded was True after it
FundSend(place, mined, funded_after) ==
    [place |-> place, mined |-> mined, funded_after |-> funded_after]

\* whether a mined transaction lets funded become True: the modules variant
\* asks for a positive balance increase, the agent variant asks nothing
FundingVerified(impl, balance_increase) ==
    IF impl = "modules" THEN balance_increase > 0 ELSE TRUE

VARIABLES
    \* the implementation, the ABI, what a direct transfer does
    fund_variant, fund_abi, direct_outcome,
    \* "loop", "direct", "done"; the place of the next ABI entry
    fund_pc, fund_index,
    \* the balance of the contract before the funding and now
    initial_balance, fund_balance,
    \* the flag funded; the transactions sent, in order
    funded, fund_sends

fundVars == <<fund_variant, fund_abi, direct_outcome, fund_pc, fund_index,
              initial_balance, fund_balance, funded, fund_sends>>

InitFund ==
    /\ fund_variant \in Variants
    /\ fund_abi \in FundAbis
    /\ direct_outcome \in SendOutcomes
    /\ fund_pc = "loop"
    /\ fund_index = 1
    /\ initial_balance \in 0..1
    /\ fund_balance = initial_balance
    /\ funded = FALSE
    /\ fund_sends = <<>>

FundIdle ==
    /\ fund_variant = "modules"
    /\ fund_abi = <<>>
    /\ direct_outcome = "reverts"
    /\ fund_pc = "idle"
    /\ fund_index = 1
    /\ initial_balance = 0
    /\ fund_balance = 0
    /\ funded = FALSE
    /\ fund_sends = <<>>

\* the balance after a transaction with the given outcome
BalanceAfter(outcome) ==
    IF outcome = "keeps" THEN fund_balance + TargetFundEth ELSE fund_balance

\* one turn of the loop over the ABI: an entry that is no payable function
\* without inputs is passed over; otherwise the function is called with the
\* value, and a funding ends the loop
FundViaFunction ==
    /\ fund_pc = "loop"
    /\ fund_index <= Len(fund_abi)
    /\ LET f == fund_abi[fund_index]
           mined == f.outcome # "reverts"
           now_funded == mined /\ FundingVerified(fund_variant,
                                                  BalanceAfter(f.outcome) - initial_balance)
       IN  IF f.payable0
           THEN /\ fund_balance' = BalanceAfter(f.outcome)
                /\ funded' = now_funded
                /\ fund_sends' = Append(fund_sends, FundSend(fund_index, mined, now_funded))
                /\ fund_pc' = IF now_funded THEN "direct" ELSE "loop"
           ELSE UNCHANGED <<fund_balance, funded, fund_sends, fund_pc>>
    /\ fund_index' = fund_index + 1
    /\ UNCHANGED <<fund_variant, fund_abi, direct_outcome, initial_balance>>

\* the end of the ABI
FundLoopEnd ==
    /\ fund_pc = "loop"
    /\ fund_index > Len(fund_abi)
    /\ fund_pc' = "direct"
    /\ UNCHANGED <<fund_variant, fund_abi, direct_outcome, fund_index, initial_balance,
                   fund_balance, funded, fund_sends>>

\* if not funded: the direct transfer; then the return
DirectTransfer ==
    /\ fund_pc = "direct"
    /\ IF funded
       THEN UNCHANGED <<fund_balance, funded, fund_sends>>
       ELSE LET mined == direct_outcome # "reverts"
                now_funded == mined /\ FundingVerified(fund_variant,
                                          BalanceAfter(direct_outcome) - initial_balance)
            IN  /\ fund_balance' = BalanceAfter(direct_outcome)
                /\ funded' = now_funded
                /\ fund_sends' = Append(fund_sends, FundSend(0, mined, now_funded))
    /\ fund_pc' = "done"
    /\ UNCHANGED <<fund_variant, fund_abi, direct_outcome, fund_index, initial_balance>>

(***************************************************************************)
(* Deployment in the service: analyze_contract_from_code calls             *)
(* compile_and_deploy_all_contracts and then deploy_contract again on      *)
(* every contract that call returned.                                      *)
(***************************************************************************)
\* a contract created on the chain by a deployment transaction
Creation(name, address) == [contract_name |-> name, address |-> address]

\* contract_info.update({"address": address, ...}) of a later deployment,
\* which may meet another outcome than the first (the constructor arguments
\* are deduced anew by the language model)
Redeployed(ci, outcome) == [ci EXCEPT !.outcome = outcome]

VARIABLES
    \* the contracts compile_contracts finds in the file; the contracts
    \* created on the Ganache chain, in order
    run_file, ganache,
    \* "compile_and_deploy_all_contracts", "deploy", "returned"; the place of
    \* the next contract in the list being walked
    run_pc, run_index,
    \* compiled_contracts and deployed_contracts of the service; the
    \* addresses setup_contract and auto_fund_contract_for_attack were given
    run_compiled, run_deployed, run_used

runVars == <<run_file, ganache, run_pc, run_index, run_compiled, run_deployed, run_used>>

InitRun ==
    /\ run_file \in CompiledFiles
    /\ ganache = <<>>
    /\ run_pc = "compile_and_deploy_all_contracts"
    /\ run_index = 1
    /\ run_compiled = <<>>
    /\ run_deployed = <<>>
    /\ run_used = <<>>

RunIdle ==
    /\ run_file = <<>>
    /\ ganache = <<>>
    /\ run_pc = "idle"
    /\ run_index = 1
    /\ run_compiled = <<>>
    /\ run_deployed = <<>>
    /\ run_used = <<>>

\* one turn of the loop of compile_and_deploy_all_contracts
CompileAndDeployNext ==
    /\ run_pc = "compile_and_deploy_all_contracts"
    /\ run_index <= Len(run_file)
    /\ LET deployed_contract == deploy_contract(run_file[run_index], Len(ganache) + 1)
       IN  IF deployed_contract.raised
           THEN /\ run_compiled' = <<>>
                /\ run_index' = Len(run_file) + 1
                /\ UNCHANGED ganache
           ELSE /\ run_compiled' = run_compiled \o deployed_contract.value
                /\ run_index' = run_index + 1
                /\ ganache' = ganache \o
                      [k \in 1..Len(deployed_contract.value) |->
                          Creation(deployed_contract.value[k].contract_name,
                                   deployed_contract.value[k].address)]
    /\ UNCHANGED <<run_file, run_pc, run_deployed, run_used>>

\* compile_and_deploy_all_contracts returns; the service returns an error
\* report for an empty list and enters its own deployment loop otherwise
CompileAndDeployReturn ==
    /\ run_pc = "compile_and_deploy_all_contracts"
    /\ run_index > Len(run_file)
    /\ run_pc' = IF run_compiled = <<>> THEN "returned" ELSE "deploy"
    /\ run_index' = 1
    /\ UNCHANGED <<run_file, ganache, run_compiled, run_deployed, run_used>>

\* one turn of the loop of lines 150-181: deploy_contract on a contract of
\* the list returned, then setup_contract, auto_fund_contract_for_attack
\* and the append, all on the dictionary deploy_contract returned
ServiceDeployNext ==
    /\ run_pc = "deploy"
    /\ run_index <= Len(run_compiled)
    /\ \E outcome \in DeployOutcomes :
          /\ <<run_compiled[run_index].constructor_inputs, outcome>> \in DeployCases
          /\ LET deployed_contract ==
                     deploy_contract(Redeployed(run_compiled[run_index], outcome),
                                     Len(ganache) + 1)
                 made == IF deployed_contract.raised THEN <<>> ELSE deployed_contract.value
             IN  /\ ganache' = ganache \o
                       [k \in 1..Len(made) |-> Creation(made[k].contract_name, made[k].address)]
                 /\ run_used' = run_used \o [k \in 1..Len(made) |-> made[k].address]
                 /\ run_deployed' = run_deployed \o made
    /\ run_index' = run_index + 1
    /\ UNCHANGED <<run_file, run_pc, run_compiled>>

\* the end of the loop of the service
ServiceDeployEnd ==
    /\ run_pc = "deploy"
    /\ run_index > Len(run_compiled)
    /\ run_pc' = "returned"
    /\ UNCHANGED <<run_file, ganache, run_index, run_compiled, run_deployed, run_used>>

(***************************************************************************)
(* Specifications: one per operation.  The variables of the operations a   *)
(* specification does not run stay at rest.                                *)
(***************************************************************************)
vars == <<execVars, argsVars, evalVars, pipeVars, filterVars, obsVars, svcVars, loopVars, deployVars, parserVars, setupVars, fundVars, runVars>>

ExecIdle ==
    /\ variant = "modules"
    /\ code = ""
    /\ code_type = s_solidity
    /\ contract_group = <<>>
    /\ compilesOk = FALSE
    /\ attack_abi = <<>>
    /\ pc = "idle"
    /\ i = 1
    /\ result = [success |-> FALSE]
    /\ attempted = <<>>
    /\ deployed = <<>>
    /\ balance = [a \in Addrs |-> 0]
    /\ compiles = 0
    /\ txs = 0
    /\ hostRuns = 0
    /\ caught = FALSE
    /\ txSucceededOn = 0

ArgsIdle ==
    /\ abi_inputs = <<>>
    /\ llm = [kind |-> "call_raises", args |-> <<>>]
    /\ args_pc = "idle"
    /\ args_out = <<>>

otherThanExec == <<argsVars, evalVars, pipeVars, filterVars, obsVars, svcVars, loopVars, deployVars, parserVars, setupVars, fundVars, runVars>>
otherThanArgs == <<execVars, evalVars, pipeVars, filterVars, obsVars, svcVars, loopVars, deployVars, parserVars, setupVars, fundVars, runVars>>
otherThanEval == <<execVars, argsVars, pipeVars, filterVars, obsVars, svcVars, loopVars, deployVars, parserVars, setupVars, fundVars, runVars>>
otherThanPipe == <<execVars, argsVars, evalVars, filterVars, obsVars, svcVars, loopVars, deployVars, parserVars, setupVars, fundVars, runVars>>
otherThanFilter == <<execVars, argsVars, evalVars, pipeVars, obsVars, svcVars, loopVars, deployVars, parserVars, setupVars, fundVars, runVars>>
otherThanObs == <<execVars, argsVars, evalVars, pipeVars, filterVars, svcVars, loopVars, deployVars, parserVars, setupVars, fundVars, runVars>>
otherThanSvc == <<execVars, argsVars, evalVars, pipeVars, filterVars, obsVars, loopVars, deployVars, parserVars, setupVars, fundVars, runVars>>
otherThanLoop == <<execVars, argsVars, evalVars, pipeVars, filterVars, obsVars, svcVars, deployVars, parserVars, setupVars, fundVars, runVars>>
otherThanDeploy == <<execVars, argsVars, evalVars, pipeVars, filterVars, obsVars, svcVars, loopVars, parserVars, setupVars, fundVars, runVars>>
otherThanParser == <<execVars, argsVars, evalVars, pipeVars, filterVars, obsVars, svcVars, loopVars, deployVars, setupVars, fundVars, runVars>>
otherThanSetup == <<execVars, argsVars, evalVars, pipeVars, filterVars, obsVars, svcVars, loopVars, deployVars, parserVars, fundVars, runVars>>
otherThanFund == <<execVars, argsVars, evalVars, pipeVars, filterVars, obsVars, svcVars, loopVars, deployVars, parserVars, setupVars, runVars>>
otherThanRun == <<execVars, argsVars, evalVars, pipeVars, filterVars, obsVars, svcVars, loopVars, deployVars, parserVars, setupVars, fundVars>>

NextExec ==
    \/ ReturnNoCode /\ UNCHANGED otherThanExec
    \/ ReturnOnlySolidity /\ UNCHANGED otherThanExec
    \/ ReturnUnsupportedType /\ UNCHANGED otherThanExec
    \/ RunPython /\ UNCHANGED otherThanExec
    \/ RunJs /\ UNCHANGED otherThanExec
    \/ BeginLoop /\ UNCHANGED otherThanExec
    \/ AttemptTarget /\ UNCHANGED otherThanExec
    \/ LoopExhausted /\ UNCHANGED otherThanExec

StartExec == InitExec /\ ArgsIdle /\ EvalIdle /\ PipeIdle /\ FilterIdle /\ ObsIdle /\ SvcIdle /\ LoopIdle /\ DeployIdle /\ ParserIdle /\ SetupIdle /\ FundIdle /\ RunIdle

SpecExec == StartExec /\ [][NextExec]_vars

NextArgs ==
    \/ LlmCallRaises /\ UNCHANGED otherThanArgs
    \/ ReplyWithoutBracket /\ UNCHANGED otherThanArgs
    \/ ReplyEvalRaises /\ UNCHANGED otherThanArgs
    \/ ReplyArray /\ UNCHANGED otherThanArgs

StartArgs == InitArgs /\ ExecIdle /\ EvalIdle /\ PipeIdle /\ FilterIdle /\ ObsIdle /\ SvcIdle /\ LoopIdle /\ DeployIdle /\ ParserIdle /\ SetupIdle /\ FundIdle /\ RunIdle

SpecArgs == StartArgs /\ [][NextArgs]_vars

NextEval ==
    \/ EvaluateAttackRaises /\ UNCHANGED otherThanEval
    \/ EvaluateAttack /\ UNCHANGED otherThanEval
    \/ SaveEpisodeResults /\ UNCHANGED otherThanEval

StartEval == InitEval /\ ExecIdle /\ ArgsIdle /\ PipeIdle /\ FilterIdle /\ ObsIdle /\ SvcIdle /\ LoopIdle /\ DeployIdle /\ ParserIdle /\ SetupIdle /\ FundIdle /\ RunIdle

SpecEval == StartEval /\ [][NextEval]_vars

NextSave ==
    \/ RunEpisodeToEvaluation /\ UNCHANGED otherThanEval
    \/ SaveEpisodeResults /\ UNCHANGED otherThanEval

StartSave == InitSave /\ ExecIdle /\ ArgsIdle /\ PipeIdle /\ FilterIdle /\ ObsIdle /\ SvcIdle /\ LoopIdle /\ DeployIdle /\ ParserIdle /\ SetupIdle /\ FundIdle /\ RunIdle

SpecSave == StartSave /\ [][NextSave]_vars

NextPipe ==
    \/ CompileAndDeploy /\ UNCHANGED otherThanPipe
    \/ FilterTargets /\ UNCHANGED otherThanPipe
    \/ SetupAndFund /\ UNCHANGED otherThanPipe
    \/ ServiceDeploySetupFund /\ UNCHANGED otherThanPipe
    \/ GenerateStrategy /\ UNCHANGED otherThanPipe
    \/ ExecuteAttack /\ UNCHANGED otherThanPipe
    \/ FinishEpisode /\ UNCHANGED otherThanPipe

StartPipe == InitPipe /\ ExecIdle /\ ArgsIdle /\ EvalIdle /\ FilterIdle /\ ObsIdle /\ SvcIdle /\ LoopIdle /\ DeployIdle /\ ParserIdle /\ SetupIdle /\ FundIdle /\ RunIdle

SpecPipe == StartPipe /\ [][NextPipe]_vars

NextFilter ==
    \/ CallIsExploitableTarget /\ UNCHANGED otherThanFilter

StartFilter == InitFilter /\ ExecIdle /\ ArgsIdle /\ EvalIdle /\ PipeIdle /\ ObsIdle /\ SvcIdle /\ LoopIdle /\ DeployIdle /\ ParserIdle /\ SetupIdle /\ FundIdle /\ RunIdle

SpecFilter == StartFilter /\ [][NextFilter]_vars

NextObs ==
    \/ ObservePublicState /\ UNCHANGED otherThanObs

StartObs == InitObs /\ ExecIdle /\ ArgsIdle /\ EvalIdle /\ PipeIdle /\ FilterIdle /\ SvcIdle /\ LoopIdle /\ DeployIdle /\ ParserIdle /\ SetupIdle /\ FundIdle /\ RunIdle

SpecObs == StartObs /\ [][NextObs]_vars

NextSvc ==
    \/ TrySingleAttack /\ UNCHANGED otherThanSvc
    \/ ReturnReport /\ UNCHANGED otherThanSvc

StartSvc == InitSvc /\ ExecIdle /\ ArgsIdle /\ EvalIdle /\ PipeIdle /\ FilterIdle /\ ObsIdle /\ LoopIdle /\ DeployIdle /\ ParserIdle /\ SetupIdle /\ FundIdle /\ RunIdle

SpecSvc == StartSvc /\ [][NextSvc]_vars

NextLoop ==
    \/ ReturnNoFiles /\ UNCHANGED otherThanLoop
    \/ EnterLoop /\ UNCHANGED otherThanLoop
    \/ WhileTest /\ UNCHANGED otherThanLoop
    \/ DeployFilterSetup /\ UNCHANGED otherThanLoop
    \/ Funding /\ UNCHANGED otherThanLoop
    \/ RunOneAttackEpisode /\ UNCHANGED otherThanLoop
    \/ SftMonitoring /\ UNCHANGED otherThanLoop
    \/ StageRaises /\ UNCHANGED otherThanLoop
    \/ IncrementEpisode /\ UNCHANGED otherThanLoop
    \/ Sleep /\ UNCHANGED otherThanLoop
    \/ KeyboardInterrupt /\ UNCHANGED otherThanLoop
    \/ FinalLog /\ UNCHANGED otherThanLoop

StartLoop == InitLoop /\ ExecIdle /\ ArgsIdle /\ EvalIdle /\ PipeIdle /\ FilterIdle /\ ObsIdle /\ SvcIdle /\ DeployIdle /\ ParserIdle /\ SetupIdle /\ FundIdle /\ RunIdle

SpecLoop == StartLoop /\ [][NextLoop]_vars

\* the interpreter keeps running the program: a step of the program that is
\* possible is eventually taken
SpecLoopFair == SpecLoop /\ WF_vars(LoopProgramStep /\ UNCHANGED otherThanLoop)

NextDeploy ==
    \/ DeployNext /\ UNCHANGED otherThanDeploy
    \/ ReturnDeployed /\ UNCHANGED otherThanDeploy

StartDeploy == InitDeploy /\ ExecIdle /\ ArgsIdle /\ EvalIdle /\ PipeIdle /\ FilterIdle /\ ObsIdle /\ SvcIdle /\ LoopIdle /\ ParserIdle /\ SetupIdle /\ FundIdle /\ RunIdle

SpecDeploy == StartDeploy /\ [][NextDeploy]_vars

NextParser ==
    \/ CallParseAttackCodeResponse /\ UNCHANGED otherThanParser

StartParser == InitParser /\ ExecIdle /\ ArgsIdle /\ EvalIdle /\ PipeIdle /\ FilterIdle /\ ObsIdle /\ SvcIdle /\ LoopIdle /\ DeployIdle /\ SetupIdle /\ FundIdle /\ RunIdle

SpecParser == StartParser /\ [][NextParser]_vars

NextSetup ==
    \/ ReadContractState /\ UNCHANGED otherThanSetup
    \/ SetupCall /\ UNCHANGED otherThanSetup
    \/ SetupReturn /\ UNCHANGED otherThanSetup

StartSetup == InitSetup /\ ExecIdle /\ ArgsIdle /\ EvalIdle /\ PipeIdle /\ FilterIdle /\ ObsIdle /\ SvcIdle /\ LoopIdle /\ DeployIdle /\ ParserIdle /\ FundIdle /\ RunIdle

SpecSetup == StartSetup /\ [][NextSetup]_vars

NextFund ==
    \/ FundViaFunction /\ UNCHANGED otherThanFund
    \/ FundLoopEnd /\ UNCHANGED otherThanFund
    \/ DirectTransfer /\ UNCHANGED otherThanFund

StartFund == InitFund /\ ExecIdle /\ ArgsIdle /\ EvalIdle /\ PipeIdle /\ FilterIdle /\ ObsIdle /\ SvcIdle /\ LoopIdle /\ DeployIdle /\ ParserIdle /\ SetupIdle /\ RunIdle

SpecFund == StartFund /\ [][NextFund]_vars

NextRun ==
    \/ CompileAndDeployNext /\ UNCHANGED otherThanRun
    \/ CompileAndDeployReturn /\ UNCHANGED otherThanRun
    \/ ServiceDeployNext /\ UNCHANGED otherThanRun
    \/ ServiceDeployEnd /\ UNCHANGED otherThanRun

StartRun == InitRun /\ ExecIdle /\ ArgsIdle /\ EvalIdle /\ PipeIdle /\ FilterIdle /\ ObsIdle /\ SvcIdle /\ LoopIdle /\ DeployIdle /\ ParserIdle /\ SetupIdle /\ FundIdle

SpecRun == StartRun /\ [][NextRun]_vars

(***************************************************************************)
(* Claims about the pipeline drivers (checked under SpecPipe).             *)
(***************************************************************************)
\* no contract of the source file is accepted by is_exploitable_target
NoExploitableTarget ==
    \A k \in 1..Len(source_contracts) : ~is_exploitable_target(source_contracts[k])

\* C1: in an episode whose source file yields no contract accepted by
\* is_exploitable_target, every driver records zero exploitable targets,
\* makes no LLM call for an attack strategy and executes no attack.
C1_NoTargetNoStrategy ==
    NoExploitableTarget =>
        /\ strategy_llm_calls = 0
        /\ attacks_run = 0
        /\ pipe_group = <<>>

(***************************************************************************)
(* Claims about execute_attack_on_contracts (checked under SpecExec).      *)
(***************************************************************************)
\* the call went through the Solidity branch and its for loop
RanLoop == IsSolidity /\ (variant = "modules" => code # "")

\* C2: execute_attack_on_contracts always returns (it never raises); whenever
\* the compiler or the chain raised, the result has success = False and a
\* non-empty error; and every returned result carries all seven fields of
\* the AttackResult data model.
C2_WellFormedResult ==
    pc = "returned" =>
        /\ DOMAIN result = AttackResultFields
        /\ caught => /\ result.success = FALSE
                     /\ result.error # None
                     /\ result.error # ""

\* C3: an exception raised while attacking one contract of the group is
\* caught for that attempt only: when the call has returned after an
\* exception and no attack transaction succeeded, every contract of the
\* group has been attempted.
C3_FailureDoesNotStopLaterAttempts ==
    (pc = "returned" /\ caught /\ txSucceededOn = 0) =>
        \A j \in 1..Len(contract_group) : \E k \in 1..Len(attempted) : attempted[k] = j

\* C4: the targets are attempted in group order; the call stops at the first
\* target whose attack transaction succeeded, deploys nothing against a later
\* one and returns success = True naming that target; if no attempt
\* succeeded, every target has been attempted and success is False.
C4_StopsAtFirstSuccess ==
    (pc = "returned" /\ RanLoop) =>
        /\ attempted = [k \in 1..Len(attempted) |-> k]
        /\ IF txSucceededOn # 0
           THEN /\ result.success = TRUE
                /\ "target_contract" \in DOMAIN result
                /\ result.target_contract = TargetName(txSucceededOn)
                /\ Len(attempted) = txSucceededOn
                /\ \A k \in 1..Len(deployed) : deployed[k].target <= txSucceededOn
           ELSE /\ Len(attempted) = Len(contract_group)
                /\ result.success = FALSE

\* C5: for every code_type other than Solidity the executor returns an
\* explicit unsupported-type error with success = False, compiles nothing,
\* sends no chain transaction and runs no LLM-supplied code on the host.
C5_OnlySolidityRuns ==
    (pc = "returned" /\ code # "" /\ ~IsSolidity) =>
        /\ result.success = FALSE
        /\ "error" \in DOMAIN result
        /\ result.error \in {"Only Solidity attacks are supported", "Unsupported code type"}
        /\ compiles = 0
        /\ txs = 0
        /\ hostRuns = 0

\* C6: prompt_llm_for_args never raises and, for every outcome of the LLM call
\* (the call raising, a reply without "[", a reply eval() rejects, an array
\* shorter or longer than the inputs), returns a complete argument list: one
\* value per ABI input, in order, each coercible to the input's Solidity type.
C6_CompleteArgumentList ==
    args_pc # "raised"
    /\ (args_pc = "returned" =>
           /\ Len(args_out) = Len(abi_inputs)
           /\ \A k \in 1..Len(abi_inputs) : Coercible(abi_inputs[k], args_out[k]))

(***************************************************************************)
(* Claims about evaluate_attack (checked under SpecEval).                  *)
(***************************************************************************)
\* the reply holds no SCORE word in any letter case
NoScoreWord(r) == \A p \in 1..Len(r) : r[p] \notin ScoreWords

C8_EvaluatorNeverRaises == eval_pc # "raised"

(***************************************************************************)
(* Claims about save_episode_results (checked under SpecSave).             *)
(***************************************************************************)
\* the records of the buffer that meet reward_score >= 8 and success
GoodRecords ==
    {k \in 1..Len(buffer) : buffer[k].reward_score >= 8000 /\ buffer[k].attack_result.success}

\* C9: save_episode_results appends an instruction sample to the dataset
\* file if and only if reward_score >= 8 and the attack succeeded; every
\* other episode leaves the dataset unchanged and launches no retraining.
C9_PromotionIffGoodSample ==
    /\ dataset_lines = dataset0 + Cardinality(GoodRecords)
    /\ eval_pc = "saved" =>
          /\ epPromoted <=> (reward_score >= 8000 /\ atk_success)
          /\ ~epPromoted => epLaunches = 0

\* episodes of both kinds have been saved: one promoted, one not
C9_Witness ==
    /\ eval_pc = "saved"
    /\ Len(buffer) >= 3
    /\ Cardinality(GoodRecords) = 1
    /\ \E k \in 1..Len(buffer) : buffer[k].reward_score >= 8000 /\ ~buffer[k].attack_result.success
    /\ \E k \in 1..Len(buffer) : buffer[k].reward_score < 8000 /\ buffer[k].attack_result.success

\* C10: over any sequence of episodes with batch size B the retraining job is
\* launched exactly when an appended good sample brings the line count of
\* the dataset to a positive multiple of B: one launch per multiple of B
\* crossed, at most one per episode, none in an episode without promotion.
C10_LaunchOnBatchMultiples ==
    /\ launches = (dataset_lines \div sft_trigger_batch) - (dataset0 \div sft_trigger_batch)
    /\ epLaunches <= 1
    /\ epLaunches = 1 =>
          (epPromoted /\ dataset_lines > 0 /\ dataset_lines % sft_trigger_batch = 0)
    /\ (eval_pc = "saved" /\ epPromoted /\ dataset_lines % sft_trigger_batch = 0) =>
          epLaunches = 1

\* with a batch size of 2 the job has been launched twice, and the last
\* episode promoted a sample without launching it
C10_Witness ==
    /\ sft_trigger_batch = 2
    /\ launches = 2
    /\ eval_pc = "saved"
    /\ epPromoted
    /\ epLaunches = 0

\* the episodes whose save_episode_results call has returned
SavedEpisodes == IF eval_pc = "saved" THEN episode ELSE IF episode = 0 THEN 0 ELSE episode - 1

\* the writes to the buffer file, in order
BufferWrites == SelectSeq(file_writes, LAMBDA w : w.file = "rlaif_buffer.jsonl")

\* C11: the buffer file is append-only.  Each save_episode_results call
\* appends exactly one line, the record of its episode, before any
\* fine-tuning sample of that episode is written, and leaves the earlier
\* lines unchanged; after n saved episodes the buffer holds the n records in
\* episode order.
C11_BufferAppendOnly ==
    /\ [](/\ Len(buffer) = SavedEpisodes
          /\ BufferWrites = [k \in 1..SavedEpisodes |-> FileWrite("rlaif_buffer.jsonl", k)]
          /\ \A j \in 1..Len(file_writes) :
                file_writes[j].file = "finetune_dataset.jsonl" =>
                    /\ j > 1
                    /\ file_writes[j - 1] = FileWrite("rlaif_buffer.jsonl", file_writes[j].episode))
    /\ [][/\ Len(buffer') >= Len(buffer)
          /\ SubSeq(buffer', 1, Len(buffer)) = buffer
          /\ (eval_pc = "evaluated" /\ eval_pc' = "saved") =>
                buffer' = Append(buffer, create_episode_record(observation, atk_success,
                                             reward_raw, reward_score, reward_comment))]_vars

\* four episodes have been saved, the second of them with a fine-tuning
\* sample, and the buffer holds records that differ
C11_Witness ==
    /\ eval_pc = "saved"
    /\ Len(buffer) = 4
    /\ buffer[1] # buffer[2]
    /\ \E j \in 1..Len(file_writes) :
          file_writes[j] = FileWrite("finetune_dataset.jsonl", 2)

(***************************************************************************)
(* Claims about is_exploitable_target (checked under SpecFilter).          *)
(***************************************************************************)
\* the name of the contract, compared as the filter compares it, contains a
\* high-value substring / a safe-utility substring
HasImportantName == \E n \in important_names : Contains(Lower(contract_info.contract_name), n)
HasSafeName      == \E n \in safe_names : Contains(Lower(contract_info.contract_name), n)

\* the ABI has a payable function
HasPayable ==
    \E k \in 1..Len(contract_info.abi) :
        contract_info.abi[k].type = "function" /\ contract_info.abi[k].stateMutability = "payable"

\* C12 as stated: every contract whose name contains a high-value substring
\* is accepted, even if no function of its ABI is payable.
C12_ImportantNameAccepted ==
    (filter_pc = "called" /\ HasImportantName) => filter_result = TRUE

\* C12, amended: every contract whose name contains a high-value substring
\* and no safe-utility substring is accepted, even if no function of its ABI
\* is payable.
C12_ImportantNameWithoutSafeNameAccepted ==
    (filter_pc = "called" /\ HasImportantName /\ ~HasSafeName) => filter_result = TRUE

\* a contract named after a high-value word in capitals, with an empty ABI,
\* has been accepted
C12_Witness ==
    /\ filter_pc = "called"
    /\ HasImportantName /\ ~HasSafeName
    /\ contract_info.contract_name # Lower(contract_info.contract_name)
    /\ contract_info.abi = <<>>
    /\ filter_result = TRUE

\* C13: every contract whose name contains a safe-utility substring is
\* rejected, whatever its ABI contains (payable functions, function names
\* about balances, funds or a jackpot).
C13_SafeNameRejected ==
    (filter_pc = "called" /\ HasSafeName) => filter_result = FALSE

\* a contract with a safe-utility name, a high-value name and a payable
\* function has been rejected
C13_Witness ==
    /\ filter_pc = "called"
    /\ HasSafeName /\ HasImportantName /\ HasPayable
    /\ filter_result = FALSE

(***************************************************************************)
(* Claims about get_public_getters_and_vars_state (checked under SpecObs). *)
(***************************************************************************)
\* the ABI entries the Observer reads: functions that are view or pure
IsGetter(f) == f.type = "function" /\ f.stateMutability \in {"view", "pure"}

\* C14: get_public_getters_and_vars_state returns a complete dictionary:
\* every view or pure function of the ABI has an entry under its name, which
\* is its returned value (no parameter), its list of three probe results (one
\* address or uint parameter), an unsupported marker (one parameter of
\* another type, or two or more parameters), or an error marker when a call
\* failed.
C14_CompleteDictionary ==
    obs_pc = "returned" =>
        \A k \in 1..Len(obs_abi) :
            LET f == obs_abi[k]
            IN  IsGetter(f) =>
                    /\ f.name \in DOMAIN obs_state
                    /\ obs_state[f.name] \in
                          IF Len(f.inputs) = 0 THEN {GetterValue, ErrorMarker}
                          ELSE IF /\ Len(f.inputs) = 1
                                  /\ \/ f.inputs[1].type = s_address
                                     \/ StartsWith(f.inputs[1].type, s_uint)
                               THEN {ProbeResults, ErrorMarker}
                          ELSE {UnsupportedMarker, ErrorMarker}

\* C15: for every ABI function with no declared inputs and stateMutability
\* view or pure, the returned dictionary has the function's name as a key,
\* whether the call returned a value or reverted.
C15_ZeroInputGetterHasKey ==
    obs_pc = "returned" =>
        \A k \in 1..Len(obs_abi) :
            (IsGetter(obs_abi[k]) /\ Len(obs_abi[k].inputs) = 0) =>
                obs_abi[k].name \in DOMAIN obs_state

\* two getters without inputs have been read: the call of the first
\* reverted, the call of the second returned, and both names are keys
C15_Witness ==
    /\ obs_pc = "returned"
    /\ Len(obs_abi) = 2
    /\ IsGetter(obs_abi[1]) /\ Len(obs_abi[1].inputs) = 0 /\ obs_calls[1] = 1
    /\ IsGetter(obs_abi[2]) /\ Len(obs_abi[2].inputs) = 0 /\ obs_calls[2] = 0
    /\ obs_abi[1].name # obs_abi[2].name
    /\ obs_state[obs_abi[1].name] = ErrorMarker
    /\ obs_state[obs_abi[2].name] = GetterValue

(***************************************************************************)
(* Claims about the report of the service (checked under SpecSvc).         *)
(***************************************************************************)
\* C16: when the strategist hands over nothing usable (empty attack code,
\* empty analysis and empty summary, as after a failed LLM call or an
\* unparsable reply), analyze_contract_from_code degrades to "no exploit
\* found": the report has status OK and no attack, never status KO.
C16_NothingUsableGivesOK ==
    (/\ svc_pc = "returned"
     /\ attack_strategy.code = <<>>
     /\ attack_strategy.reasoning = <<>>
     /\ attack_strategy.summary = <<>>) =>
        (report.status = "OK" /\ report.attack = None)

\* C29: in the report of analyze_contract_from_code, attack_executed is true
\* whenever the generated attack code was run against the deployed contracts
\* (execute_attack_on_contracts returned a result), whether the attack
\* succeeded or failed, and attack_succeeded is true only if attack_executed
\* is true.
C29_ExecutedWheneverRun ==
    svc_pc = "returned" =>
        /\ (attack_result # <<>> => report.attack_executed)
        /\ (report.attack_succeeded => report.attack_executed)

(***************************************************************************)
(* Claims about the order of the stages (checked under SpecPipe).          *)
(***************************************************************************)
\* the order of the stages the claim gives
StageOrder ==
    <<"Compiler", "Target Filter", "Deployer", "Setup Runner", "Funder", "Observer",
      "Attack Strategist", "Attack Executor", "Reward Evaluator", "Results Manager">>

StageIndex(st) == CHOOSE k \in 1..Len(StageOrder) : StageOrder[k] = st

\* C17: within one episode the stages run strictly in the order Compiler,
\* Target Filter, Deployer, Setup Runner, Funder, Observer, Attack
\* Strategist, Attack Executor, Reward Evaluator, Results Manager, each
\* starting after the previous one completed; in particular the Target
\* Filter runs before the Deployer, so a contract is deployed only after
\* is_exploitable_target accepted it.
C17_StagesInOrder ==
    /\ \A a, b \in 1..Len(stages) :
          a < b => StageIndex(stages[a]) < StageIndex(stages[b])
    /\ \A j \in 1..Len(deployed_contracts) :
          is_exploitable_target(source_contracts[deployed_contracts[j]])

(***************************************************************************)
(* Claims about the driving loop (checked under SpecLoop and, for          *)
(* termination, under SpecLoopFair).                                       *)
(***************************************************************************)
\* the episodes the loop started
StartedEpisodes == Cardinality({k \in 1..Len(loop_log) : loop_log[k].msg = "start"})

\* C18: a keyboard interrupt that arrives while an episode is inside a stage
\* does not cancel that episode: when the loop has stopped on the
\* interruption, every episode that was started ran to its end and was
\* counted, the episode in flight included, and the count logged is the
\* number of episodes started.
C18_InterruptOnlyBetweenEpisodes ==
    (loop_exit = "interrupt" /\ interrupted_in \in StagePcs) =>
        /\ StartedEpisodes = loop_episode
        /\ loop_log[Len(loop_log)].n = StartedEpisodes

\* the lines logged for the episode numbered k
EpisodeLines(k) == {j \in 1..Len(loop_log) : loop_log[j].n = k /\ loop_log[j].msg # "interrupt"
                                             /\ loop_log[j].msg # "finished"}

\* C19: no failure of one episode goes past that episode: the loop is left
\* only by its test, by an interruption or for want of files, never by the
\* exception of a stage; a stage that raises is followed by the counting of
\* its episode; every episode starts on a chain instance created for it, on
\* which nothing was deployed or funded; and without an interruption the
\* loop ends, after exactly MAX_EPISODES episodes.
C19_FailureStaysInEpisode ==
    /\ [](/\ loop_exit \in {"", "no_files", "exhausted", "interrupt"}
          /\ loop_pc = "deploy" =>
                w3 = [instance |-> loop_episode + 1, contracts |-> 0, funded |-> FALSE]
          /\ (loop_pc = "done" /\ loop_exit = "exhausted") =>
                /\ loop_episode = MAX_EPISODES
                /\ StartedEpisodes = MAX_EPISODES
                /\ \A k \in 1..MAX_EPISODES : EpisodeLines(k) # {})
    /\ [][(loop_pc \in StagePcs /\ Len(loop_log') > Len(loop_log)
             /\ loop_log'[Len(loop_log')].msg = "error") =>
          (loop_pc' = "increment" /\ loop_exit' = "" /\ loop_episode' = loop_episode)]_vars
    /\ [][(loop_pc = "while" /\ loop_pc' = "deploy") =>
          (w3'.instance # w3.instance /\ w3'.contracts = 0 /\ ~w3'.funded)]_vars
    /\ <>(loop_pc = "done")

\* the loop ran all its episodes although one episode failed in a stage,
\* and an episode after the failed one saved its record on a chain of its own
C19_Witness ==
    /\ loop_pc = "done"
    /\ loop_exit = "exhausted"
    /\ \E j \in 1..Len(loop_log) :
          /\ loop_log[j].msg = "error"
          /\ \E k \in 1..Len(loop_buffer) : loop_buffer[k] > loop_log[j].n
    /\ w3.instance = MAX_EPISODES

(***************************************************************************)
(* Claims about the Deployer (checked under SpecDeploy).                   *)
(***************************************************************************)
\* the places, among the first n contracts of the file, of those whose
\* deployment succeeds
RECURSIVE SucceededUpTo(_)
SucceededUpTo(n) ==
    IF n = 0 THEN <<>>
    ELSE SucceededUpTo(n - 1)
         \o (IF compiled_contracts[n].outcome = "ok" THEN <<n>> ELSE <<>>)

\* C20: deploy_contract never raises; the caller goes on with the remaining
\* contracts of the file after a failed deployment, so that every contract
\* of the file gets its deployment attempt, and the list returned holds
\* exactly the contracts whose deployment succeeded, in the order of the
\* file, each with the address it was deployed at.
C20_DeployFailureSkipsOnlyThatContract ==
    /\ ~dep_raised
    /\ dep_pc \in {"idle", "loop", "returned"}
    /\ dep_attempts = [k \in 1..(dep_index - 1) |-> k]
    /\ LET ok == SucceededUpTo(dep_index - 1)
       IN  dep_deployed = [j \in 1..Len(ok) |->
                              [compiled_contracts[ok[j]] EXCEPT !.address = j]]
    /\ dep_pc = "returned" => dep_index = Len(compiled_contracts) + 1

\* the deployment of the first contract of a file failed and the loop has
\* returned the second one, deployed
C20_Witness ==
    /\ dep_pc = "returned"
    /\ Len(compiled_contracts) >= 2
    /\ compiled_contracts[1].outcome = "revert"
    /\ compiled_contracts[2].outcome = "ok"
    /\ \E j \in 1..Len(dep_deployed) : dep_deployed[j].contract_name = TargetName(2)

(***************************************************************************)
(* Claims about parse_attack_code_response (checked under SpecParser).     *)
(***************************************************************************)
\* the response holds one fenced block opened with the solidity tag
SingleSolidityBlock ==
    /\ llm_response.kind = "str"
    /\ response_parts.open = "solidity"
    /\ response_parts.close

\* C21: for a response with a single fenced solidity block the parser
\* returns the contents of that block, the text between the newline after
\* the opening fence line and the closing fence, with the whitespace at both
\* ends removed, and code_type "solidity".
C21_FencedBlockTrimmed ==
    (parser_pc = "returned" /\ SingleSolidityBlock) =>
        /\ parsed.code = Strip(JoinLines(BlockLines(response_parts)))
        /\ parsed.code_type = "solidity"

\* a block with blank lines around a contract was parsed
C21_Witness ==
    /\ parser_pc = "returned"
    /\ SingleSolidityBlock
    /\ response_parts.padded
    /\ response_parts.with_code
    /\ response_parts.prefix
    /\ parsed.code = JoinLines(AttackContract(response_parts.with_pragma,
                                              response_parts.functions))

\* the response holds no pair of fences and no pragma line
NoFenceNoPragma ==
    \/ llm_response.kind = "None"
    \/ /\ Count(llm_response.text, Fence) < 2
       /\ \A k \in 1..Len(llm_response.text) : llm_response.text[k] # PragmaLine[1]

\* C22: the parser never raises, and for a response with neither a fenced
\* block nor a line containing pragma solidity the code returned is empty.
C22_NoBlockNoPragmaGivesNoCode ==
    parser_pc = "returned" =>
        /\ ~parsed.raised
        /\ parsed.code_type = "solidity"
        /\ NoFenceNoPragma => parsed.code = <<>>

\* a contract without fence and without pragma line was parsed to no code
C22_Witness ==
    /\ parser_pc = "returned"
    /\ NoFenceNoPragma
    /\ llm_response.kind = "str"
    /\ response_parts.with_code
    /\ response_parts.prefix
    /\ parsed.code = <<>>

\* the braces open after the lines from the k-th to the j-th
RECURSIVE BraceDepth(_, _, _)
BraceDepth(lines, k, j) ==
    IF j < k THEN 0
    ELSE BraceDepth(lines, k, j - 1) + Count(lines[j], "{") - Count(lines[j], "}")

\* the text from the first pragma line through the line at which the braces
\* opened since then are balanced again (through the last line if they
\* never are)
BalancedCode(r) ==
    LET lines == SplitLines(r)
        first == CHOOSE k \in 1..Len(lines) :
                    HasPragma(lines[k]) /\ \A j \in 1..(k - 1) : ~HasPragma(lines[j])
        closed(j) == /\ BraceDepth(lines, first, j) = 0
                     /\ \E m \in first..j : Count(lines[m], "{") > 0
        ends == {j \in first..Len(lines) : closed(j)}
        last == IF ends = {} THEN Len(lines)
                ELSE CHOOSE j \in ends : \A m \in ends : j <= m
    IN  JoinLines(SubSeq(lines, first, last))

\* C27: without a fenced block, the code returned is the text from the
\* first line containing pragma solidity through the line at which the
\* braces opened since then are balanced again: the complete attacker
\* contract, its closing brace included.
C27_FallbackEndsAtBalancedBraces ==
    (/\ parser_pc = "returned"
     /\ llm_response.kind = "str"
     /\ ~\E p \in 1..Len(llm_response.text) : CodeMatchAt(llm_response.text, p)
     /\ \E k \in 1..Len(llm_response.text) : llm_response.text[k] = PragmaLine[1])
    => parsed.code = BalancedCode(llm_response.text)

(***************************************************************************)
(* Claims about the cast of addresses (checked under SpecArgs).            *)
(***************************************************************************)
\* the k-th input is an address and the reply holds a checksum address for it
ValidAddressCandidate(k) ==
    /\ llm.kind = "array"
    /\ k <= Len(abi_inputs)
    /\ k <= Len(llm.args)
    /\ abi_inputs[k] = s_address
    /\ llm.args[k].kind = "str"
    /\ is_checksum_address(llm.args[k].text)

\* the cast of some element of the reply raises
SomeCastRaises ==
    \E j \in 1..Min2(Len(llm.args), Len(abi_inputs)) :
        CastArg(abi_inputs[j], llm.args[j]) = Raised

C24_ScoreWithinZeroAndTen ==
    eval_pc = "evaluated" => (0 <= reward_score /\ reward_score <= 10000)

(***************************************************************************)
(* Claims about the Setup Runner (checked under SpecSetup).                *)
(***************************************************************************)
\* C25: the gate decision for each setup function is the one that
\* should_call_setup_fn gives on the public state of the contract as it is
\* on the chain just before that call, the effects of the setup calls made
\* before it in the same run included.
C25_GateOnFreshState ==
    \A j \in 1..Len(setup_log) : setup_log[j].gate = setup_log[j].fresh

(***************************************************************************)
(* Claims about the Funder (checked under SpecFund).                       *)
(***************************************************************************)
\* C26: the payable functions without inputs are tried first, in the order
\* of the ABI, and the direct transfer is attempted only if none of them
\* funded the contract; funded is True on return only if the balance of the
\* contract is then greater than before the funding; and no value is sent
\* once funded is True.
C26_FundingOrderAndVerification ==
    /\ \A a, b \in 1..Len(fund_sends) :
          a < b => /\ fund_sends[a].place # 0
                   /\ (fund_sends[b].place # 0 => fund_sends[a].place < fund_sends[b].place)
                   /\ ~fund_sends[a].funded_after
    /\ \A j \in 1..Len(fund_sends) :
          fund_sends[j].place = 0 =>
             \A k \in 1..Len(fund_abi) :
                fund_abi[k].payable0 => \E m \in 1..(j - 1) : fund_sends[m].place = k
    /\ (fund_pc = "done" /\ funded) => fund_balance > initial_balance

(***************************************************************************)
(* C28: for each target of the group, the attacker contract deployed for   *)
(* that attempt receives the address of that target as its constructor     *)
(* argument, and the attacker_balance and contract_balance of the result   *)
(* of the attempt are the balances of that attacker contract and of that   *)
(* target.                                                                 *)
(***************************************************************************)
C28_AttackerBoundToItsTarget ==
    /\ \A k \in 1..Len(deployed) :
          deployed[k].ctor_arg = contract_group[deployed[k].target].address
    /\ (pc = "returned" /\ "target_contract" \in DOMAIN result /\ ~caught)
          => LET last == deployed[Len(deployed)]
             IN  /\ result["target_contract"] = contract_group[last.target].contract_name
                 /\ result["attacker_balance"] = balance[last.address]
                 /\ result["contract_balance"] = balance[contract_group[last.target].address]

(***************************************************************************)
(* Claims about deployment in the service (checked under SpecRun).         *)
(***************************************************************************)
\* the places on the chain of the contracts created under a name
CreationsOf(name) == {k \in 1..Len(ganache) : ganache[k].contract_name = name}

\* C30: in one run of analyze_contract_from_code each compiled contract is
\* deployed to the chain exactly once (never twice), and the address
\* recorded for it and given to setup and funding is the address of that
\* single deployment.
C30_DeployedOnce ==
    /\ \A k \in 1..Len(run_file) :
          Cardinality(CreationsOf(run_file[k].contract_name)) <= 1
    /\ \A k \in 1..Len(run_deployed) :
          /\ CreationsOf(run_deployed[k].contract_name) # {}
          /\ \A j \in CreationsOf(run_deployed[k].contract_name) :
                ganache[j].address = run_deployed[k].address
          /\ run_used[k] = run_deployed[k].address

====
